---- MODULE Spec2Model ----
(***************************************************************************)
(* Query-serving pipeline of Netra: the /chat and /chat/stream handlers of *)
(* app/api/routes.py over the shared ResponseCache (services/cache.py),    *)
(* KnowledgeBase (services/knowledge_base.py) and AIBrain                  *)
(* (services/ai_brain.py).                                                 *)
(*                                                                         *)
(* Document and question texts are sequences of one-character strings.    *)
(* Distances and the relevance threshold are in tenths (0.7 is 7, the      *)
(* sentinel 1.0 is 10).                                                    *)
(* The vector store, the embedding model, the generation backend and the   *)
(* clock are the environment: each of their answers is a nondeterministic  *)
(* choice made in the step that asks for it.                               *)
(*                                                                         *)
(* Spec is the pipeline with one request in flight.  StoreSpec and         *)
(* CacheSpec exercise KnowledgeBase and ResponseCache on their own;        *)
(* LazySpec, CounterSpec and ParallelSpec run the accessors, the cache and *)
(* /chat on parallel threads.                                              *)
(***************************************************************************)
EXTENDS Integers, Sequences, FiniteSets, TLC

VARIABLES
    response_cache,       \* routes._response_cache: None or the ResponseCache
    knowledge_base,       \* routes._knowledge_base: None or the KnowledgeBase
    ai_brain,             \* routes._ai_brain: None or the AIBrain
    init_lock,            \* routes._init_lock: "free" or the thread holding it
    collection,           \* ids of the chunks the vector store holds
    relevance_threshold,  \* settings.relevance_threshold, in tenths
    auth,                 \* auth_service and the OTP file; None where no call is made on them
    now,                  \* the TTLCache timer (time.monotonic)
    started,              \* number of requests accepted so far
    handlers              \* per request handler: position and locals

vars == <<response_cache, knowledge_base, ai_brain, init_lock, collection,
          relevance_threshold, auth, now, started, handlers>>

(***************************************************************************)
(* Bounds of the model.                                                    *)
(***************************************************************************)
MaxRequests == 3      \* requests accepted in one behaviour
MaxTime == 2          \* the clock stops here
MaxDeltas == 2        \* deltas one provider stream yields at most
CacheMaxSize == 1     \* settings.cache_max_size as configured in the model
CacheTtl == 2         \* settings.cache_ttl_seconds as configured in the model

(***************************************************************************)
(* Program constants.                                                      *)
(***************************************************************************)
PreviewLen == 200        \* context[:200]
SentinelDistance == 10   \* the 1.0 of `return "", [], 1.0`
SearchResults == 3       \* settings.search_results

\* Python's None, for a reference that holds no object
None == [none |-> TRUE]
KnowledgeBaseObject == [object |-> "KnowledgeBase"]
AIBrainObject == [object |-> "AIBrain"]

\* chat and chat_stream are `async def` bodies without an await: the event
\* loop runs each from entry to return, one at a time, and a stream's
\* generator shares no state with another request.  One handler in flight
\* therefore shows every effect a request has on the shared objects.
HandlerIds == {"h1"}

\* "\n\n---\n\n"
Separator == <<"\n", "\n", "-", "-", "-", "\n", "\n">>

OFF_TOPIC_RESPONSE ==
    "This question falls outside my area of knowledge. I can help with mantras, meditation, yoga, tantra, and spiritual teachings from the scriptures."
CHAT_ERROR_DETAIL == "An error occurred while processing your request. Please try again."
STREAM_ERROR_TEXT == "An error occurred while generating the response."

(***************************************************************************)
(* The inputs: questions, the chunks a store can hold, the distances the   *)
(* store reports, and what the provider produces.                          *)
(***************************************************************************)
Questions == { <<"O", "m">>, <<" ", "o", "M", " ">>, <<"x">> }

ShortDoc == <<"o", "m">>
LongDoc == [i \in 1..(PreviewLen + 1) |-> "y"]

\* the chunks a store can hold: two of one source, one of another source,
\* and one whose metadata names no source
Chunk(id) ==
    IF id = "c1" THEN [document |-> ShortDoc, source |-> "s1"]
    ELSE IF id = "c3" THEN [document |-> <<"h", "u", "m">>, source |-> "s2"]
    ELSE IF id = "c4" THEN [document |-> <<"x">>, source |-> ""]
    ELSE [document |-> LongDoc, source |-> "s1"]

\* the configurations a process starts in: what the persistent store holds
\* and the configured relevance threshold
Configurations ==
    { [collection |-> {}, relevance_threshold |-> 10],
      [collection |-> {"c1"}, relevance_threshold |-> 7],
      [collection |-> {"c1", "c2"}, relevance_threshold |-> 7] }
Distances == {5, 7, 9}
Texts == {"t1", "t2"}
\* the deltas of a provider stream, in the order it yields them
\* what the provider's client can raise: the exception's type and message
NoException == [type |-> "none", message |-> "none"]
Exceptions ==
    { [type |-> "groq.RateLimitError", message |-> "Error code: 429 - groq quota"],
      [type |-> "ValueError", message |-> "GROQ_API_KEY not set"] }

ProviderDeltas == <<"d1", "d2", "d3", "d4">>

(***************************************************************************)
(* Sequence helpers.                                                       *)
(***************************************************************************)
Range(s) == { s[i] : i \in 1..Len(s) }

Count(s, x) == Cardinality({ i \in 1..Len(s) : s[i] = x })

Take(s, n) == SubSeq(s, 1, IF n < Len(s) THEN n ELSE Len(s))

RECURSIVE Join(_, _)
Join(docs, sep) ==
    IF Len(docs) = 0 THEN <<>>
    ELSE IF Len(docs) = 1 THEN docs[1]
    ELSE docs[1] \o sep \o Join(Tail(docs), sep)

Min(S) == CHOOSE x \in S : \A y \in S : x <= y

\* the orderings of a finite set as sequences
Perms(S) ==
    { p \in [1..Cardinality(S) -> S] : \A i, j \in 1..Cardinality(S) : p[i] = p[j] => i = j }

(***************************************************************************)
(* ResponseCache._get_key: md5(question.lower().strip()).hexdigest().      *)
(* The digest is modelled as a tag around the normalized text.             *)
(***************************************************************************)
\* str.lower on the letters the questions of the model are written in
LowerChar(c) ==
    IF c = "O" THEN "o" ELSE IF c = "M" THEN "m" ELSE IF c = "X" THEN "x" ELSE c

Lower(s) == [i \in 1..Len(s) |-> LowerChar(s[i])]

IsSpace(c) == c \in {" ", "\n", "\t"}

Strip(s) ==
    LET keep == { i \in 1..Len(s) : ~IsSpace(s[i]) }
    IN  IF keep = {} THEN <<>>
        ELSE SubSeq(s, Min(keep), CHOOSE i \in keep : \A j \in keep : j <= i)

Md5Hex(s) == [md5 |-> s]

\* the key of the trimmed question with its case left as typed
GetKeyCaseSensitive(question) == Md5Hex(Strip(question))

GetKey(question) == Md5Hex(Strip(Lower(question)))

(***************************************************************************)
(* cachetools.TTLCache as ResponseCache uses it.  The cache is the         *)
(* sequence of its entries in least-recently-used order; every entry       *)
(* carries the time it expires.                                            *)
(***************************************************************************)
TtlExpire(c, time) == SelectSeq(c, LAMBDA e : time < e.expires)

TtlContains(c, key, time) ==
    \E i \in 1..Len(c) : c[i].key = key /\ time < c[i].expires

TtlIndex(c, key) == CHOOSE i \in 1..Len(c) : c[i].key = key

TtlRemove(c, key) == SelectSeq(c, LAMBDA e : e.key # key)

\* TTLCache.get(key): the value and the cache after it (a hit moves the
\* entry to the most-recently-used end); None when absent or expired
TtlGetValue(c, key, time) ==
    IF TtlContains(c, key, time) THEN c[TtlIndex(c, key)].value ELSE None

\* the lookup that gives the entry it finds a new lease
TtlGetCacheRefreshed(c, key, time) ==
    IF TtlContains(c, key, time)
    THEN TtlRemove(c, key)
         \o <<[c[TtlIndex(c, key)] EXCEPT !.expires = time + CacheTtl]>>
    ELSE c

TtlGetCache(c, key, time) ==
    IF TtlContains(c, key, time)
    THEN TtlRemove(c, key) \o <<c[TtlIndex(c, key)]>>
    ELSE c

\* the eviction that drops the entry used last
RECURSIVE TtlEvictNewest(_, _)
TtlEvictNewest(c, maxsize) ==
    IF Len(c) + 1 > maxsize /\ Len(c) > 0
    THEN TtlEvictNewest(SubSeq(c, 1, Len(c) - 1), maxsize)
    ELSE c

RECURSIVE TtlEvict(_, _)
TtlEvict(c, maxsize) ==
    IF Len(c) + 1 > maxsize /\ Len(c) > 0 THEN TtlEvict(Tail(c), maxsize) ELSE c

\* TTLCache.__setitem__(key, value)
TtlSetItem(c, key, value, time, maxsize, ttl) ==
    LET live == TtlExpire(c, time)
        present == \E i \in 1..Len(live) : live[i].key = key
        room == IF present THEN live ELSE TtlEvict(live, maxsize)
    IN  TtlRemove(room, key) \o <<[key |-> key, value |-> value, expires |-> time + ttl]>>

\* ResponseCache.__init__
NewResponseCache ==
    [cache |-> <<>>, hits |-> 0, misses |-> 0,
     maxsize |-> CacheMaxSize, ttl |-> CacheTtl]

\* the entries a cache reference holds (none before the cache exists)
CacheEntries(rc) == IF rc = None THEN <<>> ELSE rc.cache

\* ResponseCache.get: the returned value
CacheGetResult(rc, question, time) == TtlGetValue(rc.cache, GetKey(question), time)

\* the lookup that counts its hits only
CacheGetAfterMissUncounted(rc, question, time) ==
    LET result == CacheGetResult(rc, question, time)
    IN  [rc EXCEPT !.cache = TtlGetCache(rc.cache, GetKey(question), time),
                   !.hits = IF result # None THEN @ + 1 ELSE @]

\* ResponseCache.get: the cache object after the call
CacheGetAfter(rc, question, time) ==
    LET result == CacheGetResult(rc, question, time)
    IN  [rc EXCEPT !.cache = TtlGetCache(rc.cache, GetKey(question), time),
                   !.hits = IF result # None THEN @ + 1 ELSE @,
                   !.misses = IF result # None THEN @ ELSE @ + 1]

\* the set that leaves an entry already stored for the key as it is
CacheSetIfAbsent(rc, question, response, time) ==
    IF TtlContains(rc.cache, GetKey(question), time) THEN rc
    ELSE [rc EXCEPT !.cache = TtlSetItem(rc.cache, GetKey(question), response, time,
                                         rc.maxsize, rc.ttl)]

\* ResponseCache.set
CacheSet(rc, question, response, time) ==
    [rc EXCEPT !.cache = TtlSetItem(rc.cache, GetKey(question), response, time,
                                    rc.maxsize, rc.ttl)]

(***************************************************************************)
(* KnowledgeBase.search.  The store's part of one call is its outcome:     *)
(* count() raises, count() is 0, query() raises, or query() returns        *)
(* matches (ranked chunk ids with their distances; none is possible).      *)
(***************************************************************************)
SearchSentinel == [context |-> <<>>, sources |-> <<>>, best_distance |-> SentinelDistance]

SearchRaises == [raised |-> "search"]

\* what collection.query can return for a store holding `coll`
QueryMatches(coll) ==
    LET n == IF Cardinality(coll) < SearchResults THEN Cardinality(coll) ELSE SearchResults
    IN  { [ids |-> ids, distances |-> ds] :
            ids \in { p \in [1..n -> coll] : \A i, j \in 1..n : p[i] = p[j] => i = j },
            ds \in [1..n -> Distances] }
        \cup { [ids |-> <<>>, distances |-> <<>>] }

\* the store that is asked for nearest neighbours even when it holds nothing
StoreOutcomesQueriedWhenEmpty(coll) ==
    { [kind |-> "count_raises"], [kind |-> "query_raises"] }
    \cup { [kind |-> IF Len(m.ids) = 0 THEN "zero_matches" ELSE "matches",
            matches |-> m] : m \in QueryMatches(coll) }

\* what the store can do during one search call
StoreOutcomes(coll) ==
    { [kind |-> "count_raises"] }
    \cup (IF coll = {} THEN { [kind |-> "count_zero"] }
          ELSE { [kind |-> "query_raises"] }
               \cup { [kind |-> IF Len(m.ids) = 0 THEN "zero_matches" ELSE "matches",
                       matches |-> m] : m \in QueryMatches(coll) })

\* the orders list(set(...)) can give the distinct non-empty sources
SourceLists(ids) ==
    Perms({ Chunk(ids[i]).source : i \in 1..Len(ids) } \ {""})

\* a search that lists the source of every match, repeated or empty
SearchFromMatchesSourcePerMatch(matches) ==
    LET documents == [i \in 1..Len(matches.ids) |-> Chunk(matches.ids[i]).document]
        distances == matches.distances
    IN  IF Len(documents) = 0 THEN {SearchSentinel}
        ELSE { [context |-> Join(documents, Separator),
                sources |-> [i \in 1..Len(matches.ids) |-> Chunk(matches.ids[i]).source],
                best_distance |-> IF Len(distances) > 0 THEN Min(Range(distances))
                                  ELSE SentinelDistance] }

\* search, lines 114-132: the tuples built from the matches of a query
SearchFromMatches(matches) ==
    LET documents == [i \in 1..Len(matches.ids) |-> Chunk(matches.ids[i]).document]
        distances == matches.distances
    IN  IF Len(documents) = 0 THEN {SearchSentinel}
        ELSE { [context |-> Join(documents, Separator),
                sources |-> src,
                best_distance |-> IF Len(distances) > 0 THEN Min(Range(distances))
                                  ELSE SentinelDistance] :
               src \in SourceLists(matches.ids) }

\* KnowledgeBase.search: what the call can give its caller (a returned
\* tuple, or SearchRaises when an exception leaves it) for one outcome
SearchReturns(outcome) ==
    IF outcome.kind = "count_raises" THEN {SearchRaises}
    ELSE IF outcome.kind = "count_zero" THEN {SearchSentinel}
    ELSE IF outcome.kind = "query_raises" THEN {SearchSentinel}
    ELSE SearchFromMatches(outcome.matches)

(***************************************************************************)
(* The relevance gate and the Answer of /chat.                             *)
(***************************************************************************)
\* the gate with the threshold itself counted as too far
IsOffTopicAtThreshold(best_distance, context, threshold) ==
    best_distance >= threshold \/ Len(context) = 0

IsOffTopic(best_distance, context, threshold) ==
    best_distance > threshold \/ Len(context) = 0

ChatResponse(response, context_used, srcs) ==
    [response |-> response, context_used |-> context_used, sources |-> srcs]

OffTopicAnswer == ChatResponse(OFF_TOPIC_RESPONSE, <<>>, <<>>)

ContextPreview(context) ==
    IF Len(context) > PreviewLen THEN Take(context, PreviewLen) \o <<".", ".", ".">>
    ELSE context

HttpError500 == [status_code |-> 500, detail |-> CHAT_ERROR_DETAIL]

ChunkEvent(text) == [chunk |-> text]
DoneEvent(srcs) == [done |-> TRUE, sources |-> srcs]
ErrorEvent == [error |-> STREAM_ERROR_TEXT]

\* the except clause that hands the caller the exception's own text
ChatErrorLeaked(e) == [status_code |-> 500, detail |-> e.message]

\* chat, lines 166-173: what the except clause raises for the exception e
ChatError(e) == HttpError500

\* generate_stream, lines 217-220: what the except clause yields for e
StreamError(e) == ErrorEvent

(***************************************************************************)
(* Request handlers.                                                       *)
(***************************************************************************)
IdleHandler ==
    [pc |-> "idle", mode |-> "none", question |-> <<>>,
     context |-> <<>>, sources |-> <<>>, best_distance |-> 0,
     store |-> "none",    \* what the store did in this request's search
     branch |-> "none",   \* "off_topic" or "on_topic" once the gate decided
     hit |-> FALSE,       \* the cache lookup returned an entry
     gen |-> "none",      \* the provider call: running, returned, completed, raised
     fail |-> "none",     \* the call that raised: init, search, generate
     exception |-> NoException,  \* what the provider raised
     produced |-> <<>>,   \* the deltas the provider has yielded
     pending |-> "none",  \* a delta received and not yet emitted
     events |-> <<>>,     \* the events handed to the stream's consumer
     stream |-> "none",   \* open, closed, abandoned
     calls |-> <<>>,      \* get, search, generate, set: in call order
     cache_before |-> <<>>, \* the cache's entries when the request came in
     result |-> None]

Init ==
    /\ response_cache = None
    /\ knowledge_base = None
    /\ ai_brain = None
    /\ init_lock = "free"
    /\ \E cfg \in Configurations :
          /\ collection = cfg.collection
          /\ relevance_threshold = cfg.relevance_threshold
          /\ auth = None
    /\ now = 0
    /\ started = 0
    /\ handlers = [h \in HandlerIds |-> IdleHandler]

\* what no step of a handler changes: the store's content, the settings,
\* and the lock, which every get_* call of a step has released again
Globals == <<collection, relevance_threshold, auth, init_lock>>

\* time.monotonic advances
Tick ==
    /\ now < MaxTime
    /\ now' = now + 1
    /\ UNCHANGED <<response_cache, knowledge_base, ai_brain, Globals, started, handlers>>

\* a POST /chat or POST /chat/stream request enters its handler
Accept(h, mode, question) ==
    /\ handlers[h].pc = "idle"
    /\ mode \in {"chat", "stream"}
    /\ started < MaxRequests
    /\ started' = started + 1
    /\ handlers' = [handlers EXCEPT ![h] =
           [IdleHandler EXCEPT !.pc = IF mode = "chat" THEN "c_get" ELSE "s_init",
                               !.mode = mode, !.question = question,
                               !.cache_before = CacheEntries(response_cache)]]
    /\ UNCHANGED <<response_cache, knowledge_base, ai_brain, Globals, now>>

\* get_response_cache()
GetResponseCache == IF response_cache = None THEN NewResponseCache ELSE response_cache

\* the lookup that goes on to retrieval although the cache answered
ChatCacheGetIgnored(h) ==
    LET me == handlers[h]
        rc == GetResponseCache
    IN  /\ me.pc = "c_get"
        /\ response_cache' = CacheGetAfter(rc, me.question, now)
        /\ handlers' = [handlers EXCEPT ![h] =
               [me EXCEPT !.pc = "c_init", !.calls = Append(@, "get")]]
        /\ UNCHANGED <<knowledge_base, ai_brain, Globals, now, started>>

\* chat, lines 121-127: the cache lookup
ChatCacheGet(h) ==
    LET me == handlers[h]
        rc == GetResponseCache
        cached == CacheGetResult(rc, me.question, now)
    IN  /\ me.pc = "c_get"
        /\ response_cache' = CacheGetAfter(rc, me.question, now)
        /\ handlers' = [handlers EXCEPT ![h] =
               IF cached # None
               THEN [me EXCEPT !.pc = "done", !.hit = TRUE, !.result = cached,
                               !.calls = Append(@, "get")]
               ELSE [me EXCEPT !.pc = "c_init", !.calls = Append(@, "get")]]
        /\ UNCHANGED <<knowledge_base, ai_brain, Globals, now, started>>

\* get_knowledge_base() then get_ai_brain(): the two references after the
\* calls, when the constructors that run succeed as kb_ok and brain_ok say;
\* a constructor that raises leaves its reference None and ends the calls
ServicesAfter(kb_ok, brain_ok) ==
    LET kb == IF knowledge_base # None \/ kb_ok THEN KnowledgeBaseObject ELSE None
        brain == IF kb = None THEN ai_brain
                 ELSE IF ai_brain # None \/ brain_ok THEN AIBrainObject ELSE None
    IN  [kb |-> kb, brain |-> brain, ok |-> kb # None /\ brain # None]

\* chat, lines 129-130: get_knowledge_base() and get_ai_brain(); when a
\* constructor raises the except clause answers with the generic HTTP 500
ChatInit(h) ==
    LET me == handlers[h]
    IN  /\ me.pc = "c_init"
        /\ \E kb_ok \in BOOLEAN, brain_ok \in BOOLEAN :
              LET after == ServicesAfter(kb_ok, brain_ok)
              IN  /\ knowledge_base' = after.kb
                  /\ ai_brain' = after.brain
                  /\ handlers' = [handlers EXCEPT ![h] =
                        IF after.ok
                        THEN [me EXCEPT !.pc = "c_search"]
                        ELSE [me EXCEPT !.pc = "done", !.fail = "init",
                                        !.result = HttpError500]]
        /\ UNCHANGED <<response_cache, Globals, now, started>>

\* the locals of a handler after kb.search returned `ret`
WithSearchResult(me, outcome, ret) ==
    [me EXCEPT !.store = outcome.kind,
               !.context = ret.context,
               !.sources = ret.sources,
               !.best_distance = ret.best_distance,
               !.calls = Append(@, "search")]

\* the off-topic branch that returns the refusal without caching it
ChatOffTopicUncached(me, rc, time) ==
    [cache |-> rc,
     handler |-> [me EXCEPT !.pc = "done", !.branch = "off_topic",
                            !.result = OffTopicAnswer]]

\* chat, lines 140-147: the off-topic branch
ChatOffTopic(me, rc, time) ==
    [cache |-> CacheSet(rc, me.question, OffTopicAnswer, time),
     handler |-> [me EXCEPT !.pc = "done", !.branch = "off_topic",
                            !.result = OffTopicAnswer,
                            !.calls = Append(@, "set")]]

\* chat, lines 133-147: retrieval and the relevance gate
ChatSearch(h) ==
    LET me == handlers[h]
    IN  /\ me.pc = "c_search"
        /\ \E outcome \in StoreOutcomes(collection) :
           \E ret \in SearchReturns(outcome) :
              IF ret = SearchRaises
              THEN /\ handlers' = [handlers EXCEPT ![h] =
                         [me EXCEPT !.pc = "done", !.fail = "search",
                                    !.store = outcome.kind,
                                    !.calls = Append(@, "search"),
                                    !.result = HttpError500]]
                   /\ UNCHANGED response_cache
              ELSE LET got == WithSearchResult(me, outcome, ret)
                   IN  IF IsOffTopic(ret.best_distance, ret.context, relevance_threshold)
                       THEN LET off == ChatOffTopic(got, response_cache, now)
                            IN  /\ response_cache' = off.cache
                                /\ handlers' = [handlers EXCEPT ![h] = off.handler]
                       ELSE /\ handlers' = [handlers EXCEPT ![h] =
                                  [got EXCEPT !.pc = "c_generate", !.branch = "on_topic"]]
                            /\ UNCHANGED response_cache
        /\ UNCHANGED <<knowledge_base, ai_brain, Globals, now, started>>

\* the Answer cached under the question as typed, not under its key
ChatAnswerRawKey(me, rc, text, time) ==
    LET response == ChatResponse(text, ContextPreview(me.context), me.sources)
    IN  [cache |-> [rc EXCEPT !.cache = TtlSetItem(rc.cache, Md5Hex(me.question),
                                                   response, time, rc.maxsize, rc.ttl)],
         handler |-> [me EXCEPT !.pc = "done", !.gen = "returned",
                                !.result = response,
                                !.calls = Append(Append(@, "generate"), "set")]]

\* chat, lines 153-164: the Answer of a generation that returned `text`,
\* cached and returned
ChatAnswer(me, rc, text, time) ==
    LET response == ChatResponse(text, ContextPreview(me.context), me.sources)
    IN  [cache |-> CacheSet(rc, me.question, response, time),
         handler |-> [me EXCEPT !.pc = "done", !.gen = "returned",
                                !.result = response,
                                !.calls = Append(Append(@, "generate"), "set")]]

\* the except clause that tries the provider once more
ChatGenerateRetried(me, rc) ==
    [cache |-> rc,
     handler |-> [me EXCEPT !.pc = "done", !.gen = "raised", !.fail = "generate",
                            !.result = HttpError500,
                            !.calls = Append(Append(@, "generate"), "generate")]]

\* chat, lines 166-173: the except clause, entered from generate_response
ChatGenerateFailed(me, rc) ==
    [cache |-> rc,
     handler |-> [me EXCEPT !.pc = "done", !.gen = "raised", !.fail = "generate",
                            !.result = ChatError(me.exception),
                            !.calls = Append(@, "generate")]]

\* chat, lines 150-173: brain.generate_response, which returns a text or
\* raises, and what follows it
ChatGenerate(h) ==
    LET me == handlers[h]
    IN  /\ me.pc = "c_generate"
        /\ \E raised \in BOOLEAN, text \in Texts, e \in Exceptions :
              LET after == IF raised
                           THEN ChatGenerateFailed([me EXCEPT !.exception = e],
                                                   response_cache)
                           ELSE ChatAnswer(me, response_cache, text, now)
              IN  /\ response_cache' = after.cache
                  /\ handlers' = [handlers EXCEPT ![h] = after.handler]
        /\ UNCHANGED <<knowledge_base, ai_brain, Globals, now, started>>

(***************************************************************************)
(* /chat/stream.                                                           *)
(***************************************************************************)
UnhandledException == [status_code |-> 500, detail |-> "Internal Server Error"]
StreamingResponse == [media_type |-> "text/event-stream"]

\* chat_stream, lines 186-187: nothing catches a constructor that raises
StreamInit(h) ==
    LET me == handlers[h]
    IN  /\ me.pc = "s_init"
        /\ \E kb_ok \in BOOLEAN, brain_ok \in BOOLEAN :
              LET after == ServicesAfter(kb_ok, brain_ok)
              IN  /\ knowledge_base' = after.kb
                  /\ ai_brain' = after.brain
                  /\ handlers' = [handlers EXCEPT ![h] =
                        IF after.ok
                        THEN [me EXCEPT !.pc = "s_search"]
                        ELSE [me EXCEPT !.pc = "done", !.fail = "init",
                                        !.result = UnhandledException]]
        /\ UNCHANGED <<response_cache, Globals, now, started>>

\* chat_stream, lines 190-229: retrieval, the gate, and the response
\* object returned around the generator that will produce the events
StreamSearch(h) ==
    LET me == handlers[h]
    IN  /\ me.pc = "s_search"
        /\ \E outcome \in StoreOutcomes(collection) :
           \E ret \in SearchReturns(outcome) :
              handlers' = [handlers EXCEPT ![h] =
                 IF ret = SearchRaises
                 THEN [me EXCEPT !.pc = "done", !.fail = "search",
                                 !.store = outcome.kind,
                                 !.calls = Append(@, "search"),
                                 !.result = UnhandledException]
                 ELSE LET got == WithSearchResult(me, outcome, ret)
                      IN  IF IsOffTopic(ret.best_distance, ret.context, relevance_threshold)
                          THEN [got EXCEPT !.pc = "s_off1", !.branch = "off_topic",
                                           !.stream = "open",
                                           !.result = StreamingResponse]
                          ELSE [got EXCEPT !.pc = "s_pull", !.branch = "on_topic",
                                           !.stream = "open",
                                           !.result = StreamingResponse]]
        /\ UNCHANGED <<response_cache, knowledge_base, ai_brain, Globals, now, started>>

\* off_topic_stream, line 198: the refusal as one chunk event
OffTopicChunk(h) ==
    LET me == handlers[h]
    IN  /\ me.pc = "s_off1"
        /\ handlers' = [handlers EXCEPT ![h] =
               [me EXCEPT !.pc = "s_off2",
                          !.events = Append(@, ChunkEvent(OFF_TOPIC_RESPONSE))]]
        /\ UNCHANGED <<response_cache, knowledge_base, ai_brain, Globals, now, started>>

\* the off-topic completion event that carries the retrieved sources
OffTopicDoneWithSources(h) ==
    LET me == handlers[h]
    IN  /\ me.pc = "s_off2"
        /\ handlers' = [handlers EXCEPT ![h] =
               [me EXCEPT !.pc = "done", !.stream = "closed",
                          !.events = Append(@, DoneEvent(me.sources))]]
        /\ UNCHANGED <<response_cache, knowledge_base, ai_brain, Globals, now, started>>

\* off_topic_stream, line 199: the completion event
OffTopicDone(h) ==
    LET me == handlers[h]
    IN  /\ me.pc = "s_off2"
        /\ handlers' = [handlers EXCEPT ![h] =
               [me EXCEPT !.pc = "done", !.stream = "closed",
                          !.events = Append(@, DoneEvent(<<>>))]]
        /\ UNCHANGED <<response_cache, knowledge_base, ai_brain, Globals, now, started>>

\* the completion event that leaves the sources out
StreamCompletedNoSources(me) ==
    [me EXCEPT !.pc = "done", !.gen = "completed", !.stream = "closed",
               !.events = Append(@, DoneEvent(<<>>))]

\* generate_stream, line 216: the provider's stream is exhausted
StreamCompleted(me) ==
    [me EXCEPT !.pc = "done", !.gen = "completed", !.stream = "closed",
               !.events = Append(@, DoneEvent(me.sources))]

\* the error event followed by the completion event all the same
StreamFailedThenDone(me) ==
    [me EXCEPT !.pc = "done", !.gen = "raised", !.fail = "generate",
               !.stream = "closed",
               !.events = Append(Append(@, ErrorEvent), DoneEvent(me.sources))]

\* generate_stream, lines 217-220: the provider raised
StreamFailed(me) ==
    [me EXCEPT !.pc = "done", !.gen = "raised", !.fail = "generate",
               !.stream = "closed",
               !.events = Append(@, StreamError(me.exception))]

\* a loop that takes the next delta and keeps it, handing nothing over
StreamPullAhead(h) ==
    LET me == handlers[h]
        asked == [me EXCEPT !.gen = "running",
                            !.calls = IF me.gen = "none" THEN Append(@, "generate") ELSE @]
    IN  /\ me.pc = "s_pull"
        /\ \/ /\ Len(me.produced) < MaxDeltas
              /\ LET delta == ProviderDeltas[Len(me.produced) + 1]
                 IN  handlers' = [handlers EXCEPT ![h] =
                        [asked EXCEPT !.pending = delta,
                                      !.produced = Append(@, delta)]]
           \/ handlers' = [handlers EXCEPT ![h] = StreamCompleted(asked)]
        /\ UNCHANGED <<response_cache, knowledge_base, ai_brain, Globals, now, started>>

\* generate_stream, line 213: the loop asks the provider's stream (through
\* AIBrain.generate_response_stream) for its next delta; the stream yields
\* one, ends, or raises
StreamPull(h) ==
    LET me == handlers[h]
        asked == [me EXCEPT !.gen = "running",
                            !.calls = IF me.gen = "none" THEN Append(@, "generate") ELSE @]
    IN  /\ me.pc = "s_pull"
        /\ \/ /\ Len(me.produced) < MaxDeltas
              /\ LET delta == ProviderDeltas[Len(me.produced) + 1]
                 IN  handlers' = [handlers EXCEPT ![h] =
                        [asked EXCEPT !.pc = "s_yield", !.pending = delta,
                                      !.produced = Append(@, delta)]]
           \/ handlers' = [handlers EXCEPT ![h] = StreamCompleted(asked)]
           \/ \E e \in Exceptions :
                 handlers' = [handlers EXCEPT ![h] =
                    StreamFailed([asked EXCEPT !.exception = e])]
        /\ UNCHANGED <<response_cache, knowledge_base, ai_brain, Globals, now, started>>

\* generate_stream, line 214: the delta goes out as a chunk event
StreamYield(h) ==
    LET me == handlers[h]
    IN  /\ me.pc = "s_yield"
        /\ handlers' = [handlers EXCEPT ![h] =
               [me EXCEPT !.pc = "s_pull", !.pending = "none",
                          !.events = Append(@, ChunkEvent(me.pending))]]
        /\ UNCHANGED <<response_cache, knowledge_base, ai_brain, Globals, now, started>>

\* the consumer stops reading and the generator is run on to its end
AbandonDrained(h) ==
    LET me == handlers[h]
    IN  /\ me.pc \in {"s_off1", "s_off2", "s_pull", "s_yield"}
        /\ me.stream # "abandoned"
        /\ handlers' = [handlers EXCEPT ![h] = [me EXCEPT !.stream = "abandoned"]]
        /\ UNCHANGED <<response_cache, knowledge_base, ai_brain, Globals, now, started>>

\* the consumer stops reading: the generator, suspended at a yield, not yet
\* started, or holding a delta it has not handed over, is closed and never
\* resumed
Abandon(h) ==
    LET me == handlers[h]
    IN  /\ me.pc \in {"s_off1", "s_off2", "s_pull", "s_yield"}
        /\ handlers' = [handlers EXCEPT ![h] =
               [me EXCEPT !.pc = "done", !.stream = "abandoned"]]
        /\ UNCHANGED <<response_cache, knowledge_base, ai_brain, Globals, now, started>>

\* the request is over; the handler serves the next one
Finish(h) ==
    /\ handlers[h].pc = "done"
    /\ handlers' = [handlers EXCEPT ![h] = IdleHandler]
    /\ UNCHANGED <<response_cache, knowledge_base, ai_brain, Globals, now, started>>

Next ==
    \/ Tick
    \/ \E h \in HandlerIds, mode \in {"chat", "stream"}, question \in Questions :
          Accept(h, mode, question)
    \/ \E h \in HandlerIds : ChatCacheGet(h)
    \/ \E h \in HandlerIds : ChatInit(h)
    \/ \E h \in HandlerIds : ChatSearch(h)
    \/ \E h \in HandlerIds : ChatGenerate(h)
    \/ \E h \in HandlerIds : StreamInit(h)
    \/ \E h \in HandlerIds : StreamSearch(h)
    \/ \E h \in HandlerIds : OffTopicChunk(h)
    \/ \E h \in HandlerIds : OffTopicDone(h)
    \/ \E h \in HandlerIds : StreamPull(h)
    \/ \E h \in HandlerIds : StreamYield(h)
    \/ \E h \in HandlerIds : Abandon(h)
    \/ \E h \in HandlerIds : Finish(h)

Spec == Init /\ [][Next]_vars

(***************************************************************************)
(* Properties of the pipeline.                                             *)
(***************************************************************************)
ChunkEvents(deltas) == [i \in 1..Len(deltas) |-> ChunkEvent(deltas[i])]

Last(s) == s[Len(s)]

\* the questions that differ from q only in case and surrounding whitespace
SameNormalized(q) == { r \in Questions : Strip(Lower(r)) = Strip(Lower(q)) }

\* the unexpired entries of the cache stored under the key of q
LiveEntries(rc, q) ==
    { e \in Range(CacheEntries(rc)) : e.key = GetKey(q) /\ now < e.expires }

\* handler h takes a step of its request
Steps(h) == handlers'[h] # handlers[h] /\ handlers[h].pc # "done"

\* C1: a chat request that missed the cache and got a retrieval result takes
\* the off-topic branch exactly when best_distance > relevance_threshold or
\* the context is empty; the off-topic branch returns the canned Answer
\* (empty context preview, no sources) without a call of generate, and the
\* on-topic branch calls generate.
ChatGateDecides ==
    \A h \in HandlerIds :
       LET me == handlers[h]
       IN  me.mode = "chat" =>
             /\ (me.store # "none" /\ me.fail # "search") => me.branch # "none"
             /\ me.branch # "none" =>
                   /\ ~me.hit /\ me.calls[1] = "get"
                   /\ (me.branch = "off_topic") <=>
                         (me.best_distance > relevance_threshold \/ me.context = <<>>)
             /\ me.branch = "off_topic" =>
                   /\ me.pc = "done"
                   /\ me.result = [response |-> OFF_TOPIC_RESPONSE,
                                   context_used |-> <<>>, sources |-> <<>>]
                   /\ Count(me.calls, "generate") = 0
                   /\ me.gen = "none"
             /\ me.branch = "on_topic" =>
                   /\ me.best_distance <= relevance_threshold /\ me.context # <<>>
                   /\ me.pc \in {"c_generate", "done"}
                   /\ me.pc = "done" => Count(me.calls, "generate") >= 1

\* C1 witness: an on-topic chat request whose best distance is the threshold
ChatGateAtThresholdGenerates ==
    \E h \in HandlerIds :
       /\ handlers[h].mode = "chat" /\ handlers[h].pc = "done"
       /\ handlers[h].branch = "on_topic" /\ handlers[h].gen = "returned"
       /\ handlers[h].best_distance = relevance_threshold

\* C2: when the cache holds an unexpired entry for the normalized question,
\* chat returns exactly that entry's Answer, and the request calls neither
\* search nor generate and writes nothing to the cache: the lookup is its
\* only call and the entries stay the ones they were.
CacheHitReturnsEntry ==
    /\ [](\A h \in HandlerIds :
            (handlers[h].mode = "chat" /\ handlers[h].hit) =>
               /\ handlers[h].calls = <<"get">>
               /\ handlers[h].pc = "done"
               /\ handlers[h].store = "none" /\ handlers[h].gen = "none"
               /\ Range(CacheEntries(response_cache)) = Range(handlers[h].cache_before))
    /\ [][\A h \in HandlerIds :
            (Steps(h) /\ handlers[h].pc = "c_get" /\ LiveEntries(response_cache, handlers[h].question) # {}) =>
               /\ handlers'[h].hit
               /\ handlers'[h].pc = "done"
               /\ \E e \in LiveEntries(response_cache, handlers[h].question) :
                     handlers'[h].result = e.value
               /\ Range(CacheEntries(response_cache')) = Range(CacheEntries(response_cache))]_vars

\* C2 witness: a request written with other case and whitespace than the
\* cached question was answered from the cache
CacheHitOnVariant ==
    \E h \in HandlerIds :
       /\ handlers[h].hit /\ handlers[h].pc = "done"
       /\ handlers[h].question = <<" ", "o", "M", " ">>
       /\ handlers[h].result \in { ChatResponse(t, ShortDoc, <<"s1">>) : t \in Texts }

\* C3: when generate raises during a chat request, the cache holds the
\* entries it held when the request came in, generate was called once (no
\* retry), nothing was cached, and the caller gets the error result.
GenerateFailureKeepsCache ==
    \A h \in HandlerIds :
       LET me == handlers[h]
       IN  (me.mode = "chat" /\ me.fail = "generate") =>
             /\ me.pc = "done"
             /\ me.result = HttpError500
             /\ Count(me.calls, "generate") = 1
             /\ Count(me.calls, "set") = 0
             /\ CacheEntries(response_cache) = me.cache_before

\* C3 witness: generate raised while the cache held an entry
GenerateFailedWithEntries ==
    \E h \in HandlerIds :
       /\ handlers[h].mode = "chat" /\ handlers[h].fail = "generate"
       /\ handlers[h].cache_before # <<>>

\* C4: when the provider's stream yields k deltas and then raises, the
\* consumer of chat_stream gets exactly k chunk events with those deltas in
\* order, then one error event and no done event, and the cache is not
\* written.
StreamFailureEvents ==
    \A h \in HandlerIds :
       LET me == handlers[h]
       IN  (me.mode = "stream" /\ me.fail = "generate") =>
             /\ me.events = ChunkEvents(me.produced) \o <<ErrorEvent>>
             /\ \A i \in 1..Len(me.events) : me.events[i] # DoneEvent(me.sources)
             /\ me.pc = "done" /\ me.stream = "closed"
             /\ Count(me.calls, "set") = 0
             /\ CacheEntries(response_cache) = me.cache_before

\* C4 witness: the provider raised after two deltas
StreamFailedAfterTwoDeltas ==
    \E h \in HandlerIds :
       /\ handlers[h].mode = "stream" /\ handlers[h].fail = "generate"
       /\ Len(handlers[h].produced) = 2

\* C5: when the provider's stream ends normally after n deltas, the consumer
\* gets exactly n chunk events with those deltas in the provider's order and
\* then one done event with the sources retrieval returned; there is no
\* error event and nothing follows the done event.
StreamSuccessEvents ==
    /\ [](\A h \in HandlerIds :
            LET me == handlers[h]
            IN  (me.mode = "stream" /\ me.gen = "completed") =>
                  /\ me.events = ChunkEvents(me.produced) \o <<DoneEvent(me.sources)>>
                  /\ me.produced = SubSeq(ProviderDeltas, 1, Len(me.produced))
                  /\ me.fail = "none" /\ me.stream = "closed" /\ me.pc = "done")
    /\ [][\A h \in HandlerIds :
            (handlers[h].mode = "stream" /\ handlers[h].stream = "closed") =>
               (handlers'[h] = handlers[h] \/ handlers'[h].pc = "idle")]_vars

\* C5 witness: a stream of two deltas ended with the retrieved sources
StreamCompletedAfterTwoDeltas ==
    \E h \in HandlerIds :
       /\ handlers[h].mode = "stream" /\ handlers[h].gen = "completed"
       /\ Len(handlers[h].produced) = 2
       /\ handlers[h].sources = <<"s1">>

\* C6: when chat_stream finds the question off-topic (best_distance >
\* relevance_threshold or empty context), the events are one chunk event
\* with the canned refusal and then at once one done event with no sources,
\* and the provider's generate_stream is never called.
StreamOffTopicEvents ==
    \A h \in HandlerIds :
       LET me == handlers[h]
           refusal == <<[chunk |-> OFF_TOPIC_RESPONSE], [done |-> TRUE, sources |-> <<>>]>>
       IN  (me.mode = "stream" /\ me.branch # "none") =>
             /\ (me.branch = "off_topic") <=>
                   (me.best_distance > relevance_threshold \/ me.context = <<>>)
             /\ me.branch = "off_topic" =>
                   /\ me.gen = "none" /\ Count(me.calls, "generate") = 0
                   /\ me.produced = <<>> /\ me.pending = "none"
                   /\ Len(me.events) <= 2
                   /\ me.events = SubSeq(refusal, 1, Len(me.events))
                   /\ me.stream = "closed" => me.events = refusal

\* C6 witness: an off-topic stream, whose retrieval named a source, is over
StreamOffTopicClosed ==
    \E h \in HandlerIds :
       /\ handlers[h].mode = "stream" /\ handlers[h].branch = "off_topic"
       /\ handlers[h].stream = "closed" /\ handlers[h].sources # <<>>

\* C7: chat and chat_stream follow one query path: ResponseCache.get comes
\* before KnowledgeBase.search, search runs only after a miss, and a
\* generation that succeeded is followed by ResponseCache.set before the
\* request's final result (stated of the requests in which no call raised).
SameQueryPath ==
    \A h \in HandlerIds :
       LET me == handlers[h]
       IN  /\ (Count(me.calls, "search") > 0 /\ me.fail = "none") =>
                 (me.calls[1] = "get" /\ ~me.hit)
           /\ (me.pc = "done" /\ me.gen \in {"returned", "completed"}) =>
                 Last(me.calls) = "set"

\* C8: the off-topic branch of chat writes the canned Answer to the cache
\* under the question's key before it returns, so a lookup of any question
\* with the same normalized text finds it; and a later chat request whose
\* key holds the unexpired canned Answer returns it with the lookup as its
\* only call.
OffTopicAnswerCached ==
    [][\A h \in HandlerIds :
          /\ (handlers[h].mode = "chat" /\ handlers[h].branch = "none"
                /\ handlers'[h].branch = "off_topic") =>
                /\ handlers'[h].result = OffTopicAnswer
                /\ handlers'[h].pc = "done"
                /\ Last(handlers'[h].calls) = "set"
                /\ \A q \in SameNormalized(handlers[h].question) :
                      /\ CacheGetResult(response_cache', q, now) = OffTopicAnswer
                      /\ \E e \in LiveEntries(response_cache', q) :
                            e.value = OffTopicAnswer /\ e.expires = now + CacheTtl
          /\ (Steps(h) /\ handlers[h].pc = "c_get"
                /\ \E e \in LiveEntries(response_cache, handlers[h].question) :
                      e.value = OffTopicAnswer) =>
                /\ handlers'[h].result = OffTopicAnswer
                /\ handlers'[h].pc = "done"
                /\ handlers'[h].calls = <<"get">>]_vars

\* C8 witness: a chat request was answered with the cached refusal
OffTopicAnswerServedFromCache ==
    \E h \in HandlerIds :
       /\ handlers[h].mode = "chat" /\ handlers[h].hit
       /\ handlers[h].result = OffTopicAnswer

\* C9: when chat takes the on-topic branch and generate returns, generate
\* was called once and the assembled Answer is in the cache under the
\* question's key before the request returns: a lookup of any question with
\* the same normalized text finds that Answer, and the next chat request
\* that finds the entry unexpired returns the same Answer.
OnTopicAnswerCached ==
    [][\A h \in HandlerIds :
          /\ (handlers[h].pc = "c_generate" /\ handlers'[h].gen = "returned") =>
                LET answer == handlers'[h].result
                IN  /\ handlers'[h].pc = "done"
                    /\ Count(handlers'[h].calls, "generate") = 1
                    /\ Last(handlers'[h].calls) = "set"
                    /\ answer.response \in Texts
                    /\ answer.context_used = ContextPreview(handlers[h].context)
                    /\ answer.sources = handlers[h].sources
                    /\ \A q \in SameNormalized(handlers[h].question) :
                          CacheGetResult(response_cache', q, now) = answer
          /\ (handlers[h].pc = "c_get" /\ handlers'[h].hit) =>
                \E e \in LiveEntries(response_cache, handlers[h].question) :
                   /\ handlers'[h].result = e.value
                   /\ e \in Range(CacheEntries(response_cache'))]_vars

\* C9 witness: a chat request was answered with a cached generated Answer
\* whose context preview was cut to 200 characters and an ellipsis
OnTopicAnswerServedFromCache ==
    \E h \in HandlerIds :
       /\ handlers[h].mode = "chat" /\ handlers[h].hit
       /\ handlers[h].result.response \in Texts
       /\ Len(handlers[h].result.context_used) = PreviewLen + 3

\* C10: KnowledgeBase.search never raises to its caller: whenever the store
\* fails at any step of the call, or returns no match, search returns the
\* sentinel (empty context, no sources, best distance 1.0), and the pipeline
\* sees an off-topic result.
SearchNeverRaises ==
    \A h \in HandlerIds :
       LET me == handlers[h]
       IN  /\ me.fail # "search"
           /\ me.store \in {"count_raises", "query_raises", "zero_matches"} =>
                 /\ me.context = <<>> /\ me.sources = <<>>
                 /\ me.best_distance = SentinelDistance
                 /\ me.branch = "off_topic"

(***************************************************************************)
(* KnowledgeBase on its own: search, clear and is_empty called on one      *)
(* instance, as the startup hook of main.py and scripts/seed_scriptures.py *)
(* call them.  The store is taken to create the collection whenever        *)
(* clear() asks for it.                                                    *)
(***************************************************************************)
MaxCalls == 3         \* calls made on the object in one behaviour

Raised(call) == [raised |-> call]

IdleCaller ==
    [call |-> "none",     \* the last call made: search, clear, is_empty
     store |-> "none",    \* what the store did during it
     queried |-> FALSE,   \* collection.query was called during it
     matches |-> None,    \* what collection.query returned during it
     dropped |-> {},      \* the chunks the last clear() deleted
     result |-> None]

\* what the persistent store can hold when search is called on it
StoreConfigurations ==
    Configurations
       \cup { [collection |-> {"c1", "c3", "c4"}, relevance_threshold |-> 7] }

StoreInit ==
    /\ response_cache = None
    /\ knowledge_base = KnowledgeBaseObject
    /\ ai_brain = None
    /\ init_lock = "free"
    /\ \E cfg \in StoreConfigurations :
          /\ collection = cfg.collection
          /\ relevance_threshold = cfg.relevance_threshold
          /\ auth = None
    /\ now = 0
    /\ started = 0
    /\ handlers = [h \in HandlerIds |-> IdleCaller]

\* KnowledgeBase.search, called directly
KbSearch(h) ==
    /\ started < MaxCalls
    /\ started' = started + 1
    /\ \E outcome \in StoreOutcomes(collection) :
          \E ret \in SearchReturns(outcome) :
             handlers' = [handlers EXCEPT ![h] =
                [@ EXCEPT !.call = "search", !.store = outcome.kind,
                          !.queried = outcome.kind \in {"query_raises", "zero_matches", "matches"},
                          !.matches = IF outcome.kind \in {"zero_matches", "matches"}
                                      THEN outcome.matches ELSE None,
                          !.result = ret]]
    /\ UNCHANGED <<response_cache, knowledge_base, ai_brain, Globals, now>>

\* KnowledgeBase.clear: delete_collection, which can raise and then leaves
\* the chunks in place, and get_or_create_collection
KbClear(h) ==
    /\ started < MaxCalls
    /\ started' = started + 1
    /\ \E deleted \in BOOLEAN :
          /\ collection' = IF deleted THEN {} ELSE collection
          /\ handlers' = [handlers EXCEPT ![h] =
                [@ EXCEPT !.call = "clear", !.queried = FALSE, !.matches = None,
                          !.store = IF deleted THEN "recreated" ELSE "delete_raises",
                          !.dropped = IF deleted THEN collection ELSE {},
                          !.result = IF deleted THEN None ELSE Raised("clear")]]
    /\ UNCHANGED <<response_cache, knowledge_base, ai_brain, init_lock,
                   relevance_threshold, auth, now>>

\* KnowledgeBase.is_empty: collection.count() == 0
KbIsEmpty(h) ==
    /\ started < MaxCalls
    /\ started' = started + 1
    /\ \E counted \in BOOLEAN :
          handlers' = [handlers EXCEPT ![h] =
             [@ EXCEPT !.call = "is_empty", !.queried = FALSE, !.matches = None,
                       !.store = IF counted THEN "counted" ELSE "count_raises",
                       !.result = IF counted THEN [value |-> collection = {}]
                                  ELSE Raised("is_empty")]]
    /\ UNCHANGED <<response_cache, knowledge_base, ai_brain, Globals, now>>

StoreNext ==
    \/ \E h \in HandlerIds : KbSearch(h)
    \/ \E h \in HandlerIds : KbClear(h)
    \/ \E h \in HandlerIds : KbIsEmpty(h)

StoreSpec == StoreInit /\ [][StoreNext]_vars

\* C11: on a store that holds no chunk (a new index, or any index right
\* after clear()), a search that the store answers returns exactly the
\* sentinel (empty context, no sources, 1.0) and asks the store for no
\* nearest neighbour; is_empty() answers true in exactly the states where
\* the store holds no chunk.
EmptyStoreShortCircuits ==
    \A h \in HandlerIds :
       LET me == handlers[h]
       IN  /\ (me.call = "search" /\ collection = {} /\ me.store # "count_raises") =>
                 /\ me.result = SearchSentinel
                 /\ ~me.queried
           /\ (me.call = "is_empty" /\ me.store = "counted") =>
                 (me.result.value <=> collection = {})

\* a store that held chunks was cleared and then searched
ClearedStoreSearched ==
    \E h \in HandlerIds :
       /\ handlers[h].call = "search"
       /\ handlers[h].dropped # {}
       /\ collection = {}
       /\ handlers[h].store = "count_zero"
       /\ handlers[h].result = SearchSentinel

(***************************************************************************)
(* What a failed generation shows the caller.                              *)
(***************************************************************************)
\* the texts that would give the failure or the provider away
Leaks(e) == {e.type, e.message, "groq", "gemini"}

\* C12: what the caller observes when generation fails does not depend on
\* the exception: whatever the provider raised, and compared with the same
\* request failing with any other exception, /chat answers the one fixed
\* error detail and /chat/stream ends with the one fixed error event, and
\* neither text is the exception's type or message or the provider's name.
FailureShowsNoDetail ==
    \A h \in HandlerIds :
       LET me == handlers[h]
       IN  (me.pc = "done" /\ me.fail = "generate") =>
              /\ me.exception \in Exceptions
              /\ me.mode = "chat" =>
                    /\ me.result = [status_code |-> 500, detail |-> CHAT_ERROR_DETAIL]
                    /\ \A e \in Exceptions : ChatError(e) = me.result
                    /\ me.result.detail \notin Leaks(me.exception)
              /\ me.mode = "stream" =>
                    /\ Last(me.events) = [error |-> STREAM_ERROR_TEXT]
                    /\ \A e \in Exceptions : StreamError(e) = Last(me.events)
                    /\ Last(me.events).error \notin Leaks(me.exception)

\* a /chat request whose provider raised a client error naming the provider
ChatFailedOnProviderError ==
    \E h \in HandlerIds :
       /\ handlers[h].pc = "done" /\ handlers[h].mode = "chat"
       /\ handlers[h].fail = "generate"
       /\ handlers[h].exception.type = "groq.RateLimitError"
       /\ handlers[h].result.detail = CHAT_ERROR_DETAIL

(***************************************************************************)
(* The lazy singletons of routes.py as parallel threads see them: each     *)
(* thread calls get_response_cache, get_knowledge_base or get_ai_brain,    *)
(* one statement at a time.  All three share the one _init_lock.           *)
(***************************************************************************)
ThreadIds == {"t1", "t2"}
Services == {"ResponseCache", "KnowledgeBase", "AIBrain"}

\* the object one constructor call made
Instance(service, t) == [object |-> service, by |-> t]

\* the module global a get_* function is about
Ref(service) ==
    CASE service = "ResponseCache" -> response_cache
      [] service = "KnowledgeBase" -> knowledge_base
      [] service = "AIBrain" -> ai_brain

IdleThread ==
    [pc |-> "idle",
     service |-> "none",  \* the singleton asked for
     saw_none |-> FALSE,  \* the unlocked check found no instance
     built |-> {},        \* the singletons this thread's constructor calls made
     raising |-> FALSE,   \* an exception is leaving the with block
     result |-> None]

LazyInit ==
    /\ response_cache = None
    /\ knowledge_base = None
    /\ ai_brain = None
    /\ init_lock = "free"
    /\ collection = {}
    /\ relevance_threshold = 7
    /\ auth = None
    /\ now = 0
    /\ started = 0
    /\ handlers = [t \in ThreadIds |-> IdleThread]

LazyFrame == <<collection, relevance_threshold, auth, now>>
Refs == <<response_cache, knowledge_base, ai_brain>>

\* a thread enters get_response_cache, get_knowledge_base or get_ai_brain
LazyCall(t, service) ==
    /\ handlers[t].pc = "idle"
    /\ started < MaxCalls
    /\ started' = started + 1
    /\ handlers' = [handlers EXCEPT ![t] =
           [@ EXCEPT !.pc = "check", !.service = service, !.saw_none = FALSE,
                     !.raising = FALSE, !.result = None]]
    /\ UNCHANGED <<Refs, init_lock, LazyFrame>>

\* `if _x is None:` outside the lock
LazyCheck(t) ==
    LET me == handlers[t]
    IN  /\ me.pc = "check"
        /\ handlers' = [handlers EXCEPT ![t] =
               IF Ref(me.service) = None
               THEN [me EXCEPT !.pc = "acquire", !.saw_none = TRUE]
               ELSE [me EXCEPT !.pc = "return"]]
        /\ UNCHANGED <<Refs, init_lock, LazyFrame, started>>

\* `with _init_lock:` entered
LazyAcquire(t) ==
    /\ handlers[t].pc = "acquire"
    /\ init_lock = "free"
    /\ init_lock' = t
    /\ handlers' = [handlers EXCEPT ![t] = [@ EXCEPT !.pc = "recheck"]]
    /\ UNCHANGED <<Refs, LazyFrame, started>>

\* the locked region that constructs without looking again
LazyRecheckSkipped(t) ==
    /\ handlers[t].pc = "recheck"
    /\ handlers' = [handlers EXCEPT ![t] = [@ EXCEPT !.pc = "construct"]]
    /\ UNCHANGED <<Refs, init_lock, LazyFrame, started>>

\* `if _x is None:` under the lock
LazyRecheck(t) ==
    LET me == handlers[t]
    IN  /\ me.pc = "recheck"
        /\ handlers' = [handlers EXCEPT ![t] =
               [me EXCEPT !.pc = IF Ref(me.service) = None THEN "construct"
                                 ELSE "release"]]
        /\ UNCHANGED <<Refs, init_lock, LazyFrame, started>>

\* `_x = X()`: the constructor returns and the global is bound, or it raises
LazyConstruct(t) ==
    LET me == handlers[t]
    IN  /\ me.pc = "construct"
        /\ \E ok \in BOOLEAN :
              LET made(service, ref) ==
                     IF ok /\ me.service = service THEN Instance(service, t) ELSE ref
              IN  /\ response_cache' = made("ResponseCache", response_cache)
                  /\ knowledge_base' = made("KnowledgeBase", knowledge_base)
                  /\ ai_brain' = made("AIBrain", ai_brain)
                  /\ handlers' = [handlers EXCEPT ![t] =
                        [me EXCEPT !.pc = "release", !.raising = ~ok,
                                   !.built = IF ok THEN @ \cup {me.service} ELSE @]]
        /\ UNCHANGED <<init_lock, LazyFrame, started>>

\* a with block that keeps the lock when an exception leaves it
LazyReleaseUnlessRaising(t) ==
    LET me == handlers[t]
    IN  /\ me.pc = "release"
        /\ init_lock' = IF me.raising THEN init_lock ELSE "free"
        /\ handlers' = [handlers EXCEPT ![t] =
               IF me.raising THEN [me EXCEPT !.pc = "done", !.result = Raised("init")]
               ELSE [me EXCEPT !.pc = "return"]]
        /\ UNCHANGED <<Refs, LazyFrame, started>>

\* the with block is left, normally or by the constructor's exception
LazyRelease(t) ==
    LET me == handlers[t]
    IN  /\ me.pc = "release"
        /\ init_lock' = "free"
        /\ handlers' = [handlers EXCEPT ![t] =
               IF me.raising THEN [me EXCEPT !.pc = "done", !.result = Raised("init")]
               ELSE [me EXCEPT !.pc = "return"]]
        /\ UNCHANGED <<Refs, LazyFrame, started>>

\* `return _x`
LazyReturn(t) ==
    LET me == handlers[t]
    IN  /\ me.pc = "return"
        /\ handlers' = [handlers EXCEPT ![t] =
               [me EXCEPT !.pc = "done", !.result = Ref(me.service)]]
        /\ UNCHANGED <<Refs, init_lock, LazyFrame, started>>

\* the caller goes on; the thread may call again
LazyDone(t) ==
    /\ handlers[t].pc = "done"
    /\ handlers' = [handlers EXCEPT ![t] = [@ EXCEPT !.pc = "idle"]]
    /\ UNCHANGED <<Refs, init_lock, LazyFrame, started>>

LazyNext ==
    \/ \E t \in ThreadIds, service \in Services : LazyCall(t, service)
    \/ \E t \in ThreadIds : LazyCheck(t)
    \/ \E t \in ThreadIds : LazyAcquire(t)
    \/ \E t \in ThreadIds : LazyRecheck(t)
    \/ \E t \in ThreadIds : LazyConstruct(t)
    \/ \E t \in ThreadIds : LazyRelease(t)
    \/ \E t \in ThreadIds : LazyReturn(t)
    \/ \E t \in ThreadIds : LazyDone(t)

LazySpec == LazyInit /\ [][LazyNext]_vars

\* C13: however the first calls of get_knowledge_base (or get_ai_brain, or
\* get_response_cache) by several threads interleave, the constructor
\* succeeds at most once, exactly once when an instance exists, and every
\* call that returns hands back that one instance.
SingletonBuiltOnce ==
    /\ \A service \in Services :
          LET builders == { t \in ThreadIds : service \in handlers[t].built }
          IN  /\ Cardinality(builders) <= 1
              /\ Ref(service) # None <=> Cardinality(builders) = 1
              /\ \A t \in builders : Ref(service) = Instance(service, t)
    /\ \A t \in ThreadIds :
          LET me == handlers[t]
          IN  (me.pc \in {"done", "idle"} /\ me.service # "none"
               /\ me.result # Raised("init")) =>
                 /\ me.result # None
                 /\ me.result = Ref(me.service)

\* two threads both found no instance outside the lock; one built it and
\* both returned it
ContendedFirstCalls ==
    \E t, u \in ThreadIds :
       /\ t # u
       /\ handlers[t].service = handlers[u].service
       /\ handlers[t].pc = "done" /\ handlers[u].pc = "done"
       /\ handlers[t].saw_none /\ handlers[u].saw_none
       /\ handlers[t].service \in handlers[t].built
       /\ handlers[u].built = {}
       /\ handlers[u].result = Instance(handlers[t].service, t)
       /\ handlers[t].result = handlers[u].result

(***************************************************************************)
(* The shared ResponseCache as parallel threads see it: get runs one       *)
(* statement at a time, `self._hits += 1` as the read and the write of the *)
(* attribute that it is; a call into the TTLCache is one step.             *)
(***************************************************************************)
IdleCacheThread ==
    [pc |-> "idle",
     question |-> <<>>,
     result |-> None,     \* what self._cache.get(key) returned
     loaded |-> 0,        \* the counter value read by `+= 1`
     gets |-> 0]          \* the get calls of this thread that returned

CounterInit ==
    /\ response_cache = NewResponseCache
    /\ knowledge_base = None
    /\ ai_brain = None
    /\ init_lock = "free"
    /\ collection = {}
    /\ relevance_threshold = 7
    /\ auth = None
    /\ now = 0
    /\ started = 0
    /\ handlers = [t \in ThreadIds |-> IdleCacheThread]

CounterFrame == <<knowledge_base, ai_brain, init_lock, collection,
                  relevance_threshold, auth, now>>

\* a thread enters ResponseCache.get
CacheGetCall(t, question) ==
    /\ handlers[t].pc = "idle"
    /\ started < MaxCalls
    /\ started' = started + 1
    /\ handlers' = [handlers EXCEPT ![t] =
           [@ EXCEPT !.pc = "lookup", !.question = question, !.result = None]]
    /\ UNCHANGED <<response_cache, CounterFrame>>

\* get, lines 44-45: key = self._get_key(question); result = self._cache.get(key)
CacheLookup(t) ==
    LET me == handlers[t]
        key == GetKey(me.question)
    IN  /\ me.pc = "lookup"
        /\ response_cache' = [response_cache EXCEPT
               !.cache = TtlGetCache(response_cache.cache, key, now)]
        /\ handlers' = [handlers EXCEPT ![t] =
               [me EXCEPT !.pc = "load",
                          !.result = TtlGetValue(response_cache.cache, key, now)]]
        /\ UNCHANGED <<CounterFrame, started>>

\* get, lines 46-50: `self._hits += 1` or `self._misses += 1` reads the attribute
CounterLoad(t) ==
    LET me == handlers[t]
    IN  /\ me.pc = "load"
        /\ handlers' = [handlers EXCEPT ![t] =
               [me EXCEPT !.pc = "store",
                          !.loaded = IF me.result # None THEN response_cache.hits
                                     ELSE response_cache.misses]]
        /\ UNCHANGED <<response_cache, CounterFrame, started>>

\* get, lines 46-52: the sum is written back to the attribute; get returns
CounterStore(t) ==
    LET me == handlers[t]
    IN  /\ me.pc = "store"
        /\ response_cache' =
              IF me.result # None
              THEN [response_cache EXCEPT !.hits = me.loaded + 1]
              ELSE [response_cache EXCEPT !.misses = me.loaded + 1]
        /\ handlers' = [handlers EXCEPT ![t] =
               [me EXCEPT !.pc = "idle", !.gets = @ + 1]]
        /\ UNCHANGED <<CounterFrame, started>>

\* ResponseCache.set, lines 62-63
CacheSetCall(t, question, text) ==
    /\ handlers[t].pc = "idle"
    /\ started < MaxCalls
    /\ started' = started + 1
    /\ response_cache' = CacheSet(response_cache, question,
                                  ChatResponse(text, <<>>, <<>>), now)
    /\ UNCHANGED <<handlers, CounterFrame>>

CounterNext ==
    \/ \E t \in ThreadIds, question \in Questions : CacheGetCall(t, question)
    \/ \E t \in ThreadIds : CacheLookup(t)
    \/ \E t \in ThreadIds : CounterLoad(t)
    \/ \E t \in ThreadIds : CounterStore(t)
    \/ \E t \in ThreadIds, question \in Questions, text \in Texts :
          CacheSetCall(t, question, text)

CounterSpec == CounterInit /\ [][CounterNext]_vars

RECURSIVE GetsOf(_)
GetsOf(T) ==
    IF T = {} THEN 0
    ELSE LET t == CHOOSE u \in T : TRUE
         IN  handlers[t].gets + GetsOf(T \ {t})

ParallelInit ==
    /\ response_cache = None
    /\ knowledge_base = None
    /\ ai_brain = None
    /\ init_lock = "free"
    /\ \E cfg \in Configurations :
          /\ collection = cfg.collection
          /\ relevance_threshold = cfg.relevance_threshold
          /\ auth = None
    /\ now = 0
    /\ started = 0
    /\ handlers = [t \in ThreadIds |-> IdleHandler]

ParallelNext ==
    \/ \E t \in ThreadIds, question \in Questions : Accept(t, "chat", question)
    \/ \E t \in ThreadIds : ChatCacheGet(t)
    \/ \E t \in ThreadIds : ChatInit(t)
    \/ \E t \in ThreadIds : ChatSearch(t)
    \/ \E t \in ThreadIds : ChatGenerate(t)

ParallelSpec == ParallelInit /\ [][ParallelNext]_vars

\* the request of this handler is over and its last call wrote the cache
Wrote(me) == me.pc = "done" /\ Len(me.calls) > 0 /\ Last(me.calls) = "set"

AbandonedStreamStops ==
    /\ [](\A h \in HandlerIds :
             handlers[h].stream = "abandoned" =>
                \A i \in 1..Len(handlers[h].events) :
                   DOMAIN handlers[h].events[i] = {"chunk"})
    /\ [][\A h \in HandlerIds :
             (handlers'[h].stream = "abandoned" /\ handlers'[h] # handlers[h]) =>
                /\ handlers[h].stream = "open"
                /\ handlers'[h].events = handlers[h].events
                /\ handlers'[h].produced = handlers[h].produced
                /\ handlers'[h].calls = handlers[h].calls
                /\ response_cache' = response_cache]_vars
    /\ [][\A h \in HandlerIds :
             handlers[h].stream = "abandoned" =>
                /\ handlers'[h] \in {handlers[h], IdleHandler}
                /\ response_cache' = response_cache]_vars

\* the consumer left after the first of the deltas the provider had ready
StreamAbandonedAfterOneEvent ==
    \E h \in HandlerIds :
       /\ handlers[h].stream = "abandoned"
       /\ handlers[h].pc = "done"
       /\ handlers[h].gen = "running"
       /\ handlers[h].events = <<ChunkEvent(ProviderDeltas[1])>>
       /\ LiveEntries(response_cache, handlers[h].question) = {}

(***************************************************************************)
(* ResponseCache on its own: one caller makes get, set and clear calls one *)
(* after another while the clock advances.  The cache is constructed with  *)
(* or without a maxsize and a ttl of its own.                              *)
(***************************************************************************)
CacheQuestions == Questions \cup { <<"m">> }

\* the maxsize and ttl arguments of the constructor; 0 stands for the
\* argument left out (None), which `or` treats the same way
CacheSizes == {0, 2}
CacheTtls == {0, 1}

\* ResponseCache(maxsize, ttl)
ResponseCacheOf(maxsize, ttl) ==
    [NewResponseCache EXCEPT
        !.maxsize = IF maxsize # 0 THEN maxsize ELSE CacheMaxSize,
        !.ttl = IF ttl # 0 THEN ttl ELSE CacheTtl]

\* the clear that starts the statistics afresh
CacheClearResetCounters(rc) == [rc EXCEPT !.cache = <<>>, !.hits = 0, !.misses = 0]

\* ResponseCache.clear
CacheClear(rc) == [rc EXCEPT !.cache = <<>>]

\* the calls the caller has made, in order: what was called, with which
\* question, the value passed (set) or returned (get), and when
IdleClient == [log |-> <<>>]

Logged(me, op, question, value) ==
    [me EXCEPT !.log = Append(@, [op |-> op, question |-> question,
                                  value |-> value, time |-> now])]

CacheInit ==
    /\ \E maxsize \in CacheSizes, ttl \in CacheTtls :
          response_cache = ResponseCacheOf(maxsize, ttl)
    /\ knowledge_base = None
    /\ ai_brain = None
    /\ init_lock = "free"
    /\ collection = {}
    /\ relevance_threshold = 7
    /\ auth = None
    /\ now = 0
    /\ started = 0
    /\ handlers = [h \in HandlerIds |-> IdleClient]

\* cache.get(question)
SeqGet(h, question) ==
    /\ started < MaxCalls
    /\ started' = started + 1
    /\ response_cache' = CacheGetAfter(response_cache, question, now)
    /\ handlers' = [handlers EXCEPT ![h] =
           Logged(@, "get", question, CacheGetResult(response_cache, question, now))]
    /\ UNCHANGED CounterFrame

\* cache.set(question, response)
SeqSet(h, question, text) ==
    /\ started < MaxCalls
    /\ started' = started + 1
    /\ response_cache' = CacheSet(response_cache, question,
                                  ChatResponse(text, <<>>, <<>>), now)
    /\ handlers' = [handlers EXCEPT ![h] =
           Logged(@, "set", question, ChatResponse(text, <<>>, <<>>))]
    /\ UNCHANGED CounterFrame

\* cache.clear()
SeqClear(h) ==
    /\ started < MaxCalls
    /\ started' = started + 1
    /\ response_cache' = CacheClear(response_cache)
    /\ handlers' = [handlers EXCEPT ![h] = Logged(@, "clear", <<>>, None)]
    /\ UNCHANGED CounterFrame

CacheNext ==
    \/ Tick
    \/ \E h \in HandlerIds, question \in CacheQuestions : SeqGet(h, question)
    \/ \E h \in HandlerIds, question \in CacheQuestions, text \in Texts :
          SeqSet(h, question, text)
    \/ \E h \in HandlerIds : SeqClear(h)

CacheSpec == CacheInit /\ [][CacheNext]_vars

(***************************************************************************)
(* Properties of the ResponseCache.                                        *)
(***************************************************************************)
\* q and r differ in letter case and surrounding whitespace only
SameText(q, r) == Strip(Lower(q)) = Strip(Lower(r))

Max(S) == CHOOSE x \in S : \A y \in S : y <= x

\* the call that a step of the caller adds to its log
Called(h) == Len(handlers'[h].log) = Len(handlers[h].log) + 1
NewCall(h) == Last(handlers'[h].log)

\* questions whose lowercased, trimmed texts differ have different keys
KeysSeparate ==
    \A q, r \in CacheQuestions : ~SameText(q, r) => GetKey(q) # GetKey(r)

\* C17: after set(q, a), a get(q') with q' differing from q in letter case
\* and leading or trailing whitespace only returns a, while the entry is
\* unexpired (it cannot have been evicted: the get follows the set); and
\* questions whose lowercased, trimmed texts differ have different keys.
SetThenGetVariant ==
    /\ KeysSeparate
    /\ \A h \in HandlerIds :
          LET log == handlers[h].log
          IN  \A i \in 1..(Len(log) - 1) :
                 (/\ log[i].op = "set" /\ log[i + 1].op = "get"
                  /\ SameText(log[i].question, log[i + 1].question)
                  /\ log[i + 1].time < log[i].time + response_cache.ttl) =>
                    log[i + 1].value = log[i].value

\* an answer stored under one spelling of a question was returned for another
VariantGotTheAnswer ==
    \E h \in HandlerIds :
       LET log == handlers[h].log
       IN  /\ Len(log) = 2
           /\ log[1].op = "set" /\ log[2].op = "get"
           /\ log[1].question = <<" ", "o", "M", " ">>
           /\ log[2].question = <<"O", "m">>
           /\ log[2].value = log[1].value

\* C18: in a sequential series of get, set and clear calls every get adds
\* one to exactly one of hits and misses, to hits exactly when it returns an
\* entry; set and clear change neither; so hits + misses is always the
\* number of get calls made.
CountersCountGets ==
    /\ [](\A h \in HandlerIds :
             response_cache.hits + response_cache.misses
                = Cardinality({ i \in 1..Len(handlers[h].log) :
                                   handlers[h].log[i].op = "get" }))
    /\ [][\A h \in HandlerIds :
             Called(h) =>
                LET hits == response_cache'.hits - response_cache.hits
                    misses == response_cache'.misses - response_cache.misses
                IN  IF NewCall(h).op = "get"
                    THEN IF NewCall(h).value # None THEN hits = 1 /\ misses = 0
                         ELSE hits = 0 /\ misses = 1
                    ELSE hits = 0 /\ misses = 0]_vars

\* a miss, the set of the answer, and the hit that follows
MissSetHit ==
    \E h \in HandlerIds :
       LET log == handlers[h].log
       IN  /\ Len(log) = 3
           /\ log[1].op = "get" /\ log[2].op = "set" /\ log[3].op = "get"
           /\ log[1].value = None /\ log[3].value = log[2].value
           /\ response_cache.hits = 1 /\ response_cache.misses = 1

\* C19: the cache never holds more entries than its maxsize; and with
\* maxsize 2, three set calls in a row for three different keys (none of
\* them expired yet) leave exactly two entries, those of the second and the
\* third call: the key inserted first is the one that is gone.
CacheNeverOverfull ==
    /\ Len(response_cache.cache) <= response_cache.maxsize
    /\ \A h \in HandlerIds :
          LET log == handlers[h].log
              n == Len(log)
              live == TtlExpire(response_cache.cache, now)
          IN  (/\ response_cache.maxsize = 2
               /\ n >= 3
               /\ \A i \in (n - 2)..n : log[i].op = "set"
               /\ \A i, j \in (n - 2)..n :
                     i # j => ~SameText(log[i].question, log[j].question)
               /\ now < log[n - 2].time + response_cache.ttl) =>
                 /\ Len(live) = 2
                 /\ live[1].key = GetKey(log[n - 1].question)
                 /\ live[1].value = log[n - 1].value
                 /\ live[2].key = GetKey(log[n].question)
                 /\ live[2].value = log[n].value
                 /\ ~TtlContains(response_cache.cache, GetKey(log[n - 2].question), now)

\* a cache of two entries took three keys and dropped the first
ThirdKeyEvictedFirst ==
    \E h \in HandlerIds :
       LET log == handlers[h].log
       IN  /\ response_cache.maxsize = 2
           /\ Len(log) = 3
           /\ \A i \in 1..3 : log[i].op = "set"
           /\ \A i, j \in 1..3 : i # j => ~SameText(log[i].question, log[j].question)
           /\ Len(response_cache.cache) = 2
           /\ ~TtlContains(response_cache.cache, GetKey(log[1].question), now)

\* C20: an entry written by set at time t is absent for every get at time
\* t + ttl or later, unless the key was set again, and that get counts as a
\* miss; the hits in between do not make the entry live longer.
EntryExpiresAfterTtl ==
    [][\A h \in HandlerIds :
          (Called(h) /\ NewCall(h).op = "get") =>
             LET log == handlers[h].log
                 sets == { i \in 1..Len(log) :
                             /\ log[i].op = "set"
                             /\ SameText(log[i].question, NewCall(h).question) }
             IN  (/\ sets # {}
                  /\ now >= log[Max(sets)].time + response_cache.ttl) =>
                    /\ NewCall(h).value = None
                    /\ response_cache'.misses = response_cache.misses + 1
                    /\ response_cache'.hits = response_cache.hits]_vars

\* an entry was hit after it was written and was gone once its ttl was over
HitThenExpired ==
    \E h \in HandlerIds :
       LET log == handlers[h].log
       IN  /\ Len(log) = 3
           /\ log[1].op = "set" /\ log[2].op = "get" /\ log[3].op = "get"
           /\ SameText(log[1].question, log[2].question)
           /\ SameText(log[1].question, log[3].question)
           /\ log[2].value = log[1].value
           /\ log[2].time > log[1].time
           /\ log[3].time = log[1].time + response_cache.ttl
           /\ log[3].value = None
           /\ response_cache.hits = 1 /\ response_cache.misses = 1

\* C21: clear() removes every entry: the size is 0 right after it and every
\* get misses until the next set; the hits and misses counters are left
\* exactly as they were.
ClearEmptiesKeepsCounters ==
    /\ [](\A h \in HandlerIds :
             LET log == handlers[h].log
             IN  \A i, j \in 1..Len(log) :
                    (/\ i < j /\ log[i].op = "clear" /\ log[j].op = "get"
                     /\ \A k \in (i + 1)..(j - 1) : log[k].op # "set") =>
                       log[j].value = None)
    /\ [][\A h \in HandlerIds :
             (Called(h) /\ NewCall(h).op = "clear") =>
                /\ Len(TtlExpire(response_cache'.cache, now)) = 0
                /\ response_cache'.cache = <<>>
                /\ response_cache'.hits = response_cache.hits
                /\ response_cache'.misses = response_cache.misses
                /\ response_cache'.maxsize = response_cache.maxsize
                /\ response_cache'.ttl = response_cache.ttl]_vars

\* a stored and served answer was cleared away and then asked for again
ClearedEntryMissed ==
    \E h \in HandlerIds :
       LET log == handlers[h].log
       IN  /\ Len(log) = 3
           /\ log[1].op = "set" /\ log[2].op = "clear" /\ log[3].op = "get"
           /\ SameText(log[1].question, log[3].question)
           /\ log[3].time < log[1].time + response_cache.ttl
           /\ log[3].value = None
           /\ response_cache.misses = 1

(***************************************************************************)
(* utils/text_chunker.py: chunk_text and find_last_match.  A text is a     *)
(* sequence of one-character strings; positions are Python's, from 0.      *)
(***************************************************************************)
MinTextLen == 50      \* `len(text) < 50`
BreakWindow == 200    \* `start + chunk_size - 200`
MaxIterations == 12   \* loop iterations followed in one call

\* n copies of the text unit, one after another
Repeat(unit, n) ==
    [i \in 1..(n * Len(unit)) |-> unit[((i - 1) % Len(unit)) + 1]]

\* the index Python's slicing makes of i for a sequence of length n
SliceIndex(i, n) ==
    IF i < 0 THEN (IF i + n < 0 THEN 0 ELSE i + n) ELSE IF i > n THEN n ELSE i

\* text[a:b]
Slice(text, a, b) ==
    LET lo == SliceIndex(a, Len(text))
        hi == SliceIndex(b, Len(text))
    IN  IF lo >= hi THEN <<>> ELSE SubSeq(text, lo + 1, hi)

\* the end positions of the matches re.finditer(r"\n\n", text) finds:
\* leftmost first and never overlapping, so in a run of newlines a match
\* starts at every second one
ParagraphEnds(text) ==
    LET run(i) == i - Max({0} \cup { j \in 1..i : text[j] # "\n" })
    IN  { i + 1 : i \in { j \in 1..(Len(text) - 1) :
                            /\ text[j] = "\n" /\ text[j + 1] = "\n"
                            /\ run(j) % 2 = 1 } }

IsSentenceEnd(c) == c \in {".", "!", "?"}

\* find_last_match(text, pattern): the end of the last match, 0 for None
FindLastMatch(text, pattern) ==
    LET ends ==
           CASE pattern = "\\n\\n" -> ParagraphEnds(text)
             [] pattern = "[.!?]\\s" ->
                   { i + 1 : i \in { j \in 1..(Len(text) - 1) :
                                        IsSentenceEnd(text[j]) /\ IsSpace(text[j + 1]) } }
             [] pattern = "\\s" -> { i \in 1..Len(text) : IsSpace(text[i]) }
    IN  IF ends = {} THEN 0 ELSE Max(ends)

\* the texts handed to chunk_text
ChunkTexts ==
    { <<>>,
      <<"a", "b", "c">>,
      Repeat(<<"a">>, 60),
      Repeat(<<" ">>, 50),
      Repeat(<<"a">>, 40) \o Repeat(<<" ">>, 20),
      <<"a", "b", " ">> \o Repeat(<<"c">>, 57),
      Repeat(<<"a">>, 57) \o <<".", " ", "b">>,
      Repeat(<<"a", "b", "c", " ">>, 15),
      Repeat(<<"a", "b", ".", " ">>, 15),
      Repeat(<<"a", "a", "a", "a", "\n", "\n">>, 10),
      Repeat(<<"a">>, 205) \o <<" ">> \o Repeat(<<"b">>, 54),
      <<"a", "b", " ">> \o Repeat(<<"c">>, 257),
      Repeat(<<"a", "a", "\n", "\n", "b", ".", " ", "c", " ">>, 8),
      Repeat(<<"a", "\n", "\n", "\n">>, 15) }

\* the chunk_size and overlap arguments: 0 <= overlap < chunk_size
ChunkConfigs ==
    { [chunk_size |-> 10, overlap |-> 0],
      [chunk_size |-> 10, overlap |-> 3],
      [chunk_size |-> 10, overlap |-> 4],
      [chunk_size |-> 10, overlap |-> 5],
      [chunk_size |-> 45, overlap |-> 5],
      [chunk_size |-> 59, overlap |-> 5],
      [chunk_size |-> 210, overlap |-> 20],
      [chunk_size |-> 1000, overlap |-> 200] }

\* the locals of one chunk_text call
ChunkCall(text, chunk_size, overlap) ==
    [pc |-> "enter",
     given |-> text,        \* the text argument
     text |-> <<>>,         \* the stripped text the loop works on
     chunk_size |-> chunk_size, overlap |-> overlap,
     start |-> 0,
     chunks |-> <<>>,
     windows |-> <<>>,      \* per chunk: the part of the text it was cut from
     cursors |-> <<>>,      \* `start` at the beginning of every iteration
     result |-> <<>>]

\* chunk_text, lines 26-37: the early returns and the loop's set-up
ChunkEntered(me) ==
    IF Len(me.given) = 0 \/ Len(me.given) < MinTextLen
    THEN [me EXCEPT !.pc = "returned", !.result = <<>>]
    ELSE LET text == Strip(me.given)
         IN  IF Len(text) <= me.chunk_size
             THEN [me EXCEPT !.pc = "returned", !.text = text, !.result = <<text>>]
             ELSE [me EXCEPT !.pc = "loop", !.text = text, !.start = 0]

\* a search that prefers a sentence end to a paragraph break
ChunkEndSentenceFirst(text, start, chunk_size) ==
    LET raw == start + chunk_size
        search_start == IF start + chunk_size - BreakWindow > start
                        THEN start + chunk_size - BreakWindow ELSE start
        tail == Slice(text, search_start, raw)
        para_match == FindLastMatch(tail, "\\n\\n")
        sent_match == FindLastMatch(tail, "[.!?]\\s")
        space_match == FindLastMatch(tail, "\\s")
    IN  IF raw < Len(text)
        THEN IF sent_match # 0 THEN search_start + sent_match + 1
             ELSE IF para_match # 0 THEN search_start + para_match
             ELSE IF space_match # 0 THEN search_start + space_match
             ELSE raw
        ELSE raw

\* chunk_text, lines 41-56: where the window starting at `start` ends
ChunkEnd(text, start, chunk_size) ==
    LET raw == start + chunk_size
        search_start == IF start + chunk_size - BreakWindow > start
                        THEN start + chunk_size - BreakWindow ELSE start
        tail == Slice(text, search_start, raw)
        para_match == FindLastMatch(tail, "\\n\\n")
        sent_match == FindLastMatch(tail, "[.!?]\\s")
        space_match == FindLastMatch(tail, "\\s")
    IN  IF raw < Len(text)
        THEN IF para_match # 0 THEN search_start + para_match
             ELSE IF sent_match # 0 THEN search_start + sent_match + 1
             ELSE IF space_match # 0 THEN search_start + space_match
             ELSE raw
        ELSE raw

\* one iteration that steps back one character more than `overlap`
ChunkIterationSteppedFurtherBack(me) ==
    LET end == ChunkEnd(me.text, me.start, me.chunk_size)
        chunk == Strip(Slice(me.text, me.start, end))
        kept == Len(chunk) > 0
    IN  [me EXCEPT
           !.cursors = Append(@, me.start),
           !.chunks = IF kept THEN Append(@, chunk) ELSE @,
           !.windows = IF kept
                       THEN Append(@, [lo |-> SliceIndex(me.start, Len(me.text)),
                                       hi |-> SliceIndex(end, Len(me.text))])
                       ELSE @,
           !.start = IF end < Len(me.text) THEN end - me.overlap - 1 ELSE Len(me.text)]

\* chunk_text, lines 39-65: one iteration of the loop
ChunkIteration(me) ==
    LET end == ChunkEnd(me.text, me.start, me.chunk_size)
        chunk == Strip(Slice(me.text, me.start, end))
        kept == Len(chunk) > 0
    IN  [me EXCEPT
           !.cursors = Append(@, me.start),
           !.chunks = IF kept THEN Append(@, chunk) ELSE @,
           !.windows = IF kept
                       THEN Append(@, [lo |-> SliceIndex(me.start, Len(me.text)),
                                       hi |-> SliceIndex(end, Len(me.text))])
                       ELSE @,
           !.start = IF end < Len(me.text) THEN end - me.overlap ELSE Len(me.text)]

ChunkInit ==
    /\ response_cache = None
    /\ knowledge_base = None
    /\ ai_brain = None
    /\ init_lock = "free"
    /\ collection = {}
    /\ relevance_threshold = 7
    /\ auth = None
    /\ now = 0
    /\ started = 0
    /\ \E text \in ChunkTexts, cfg \in ChunkConfigs :
          handlers = [h \in HandlerIds |->
                         ChunkCall(text, cfg.chunk_size, cfg.overlap)]

ChunkFrame == <<response_cache, knowledge_base, ai_brain, init_lock, collection,
                relevance_threshold, auth, now, started>>

\* chunk_text is entered
ChunkEnter(h) ==
    /\ handlers[h].pc = "enter"
    /\ handlers' = [handlers EXCEPT ![h] = ChunkEntered(@)]
    /\ UNCHANGED ChunkFrame

\* `while start < len(text):` holds and the body runs
ChunkIterate(h) ==
    /\ handlers[h].pc = "loop"
    /\ handlers[h].start < Len(handlers[h].text)
    /\ Len(handlers[h].cursors) < MaxIterations
    /\ handlers' = [handlers EXCEPT ![h] = ChunkIteration(@)]
    /\ UNCHANGED ChunkFrame

\* the loop is left and chunks returned
ChunkReturn(h) ==
    /\ handlers[h].pc = "loop"
    /\ ~(handlers[h].start < Len(handlers[h].text))
    /\ handlers' = [handlers EXCEPT ![h] =
           [@ EXCEPT !.pc = "returned", !.result = handlers[h].chunks]]
    /\ UNCHANGED ChunkFrame

ChunkNext ==
    \/ \E h \in HandlerIds : ChunkEnter(h)
    \/ \E h \in HandlerIds : ChunkIterate(h)
    \/ \E h \in HandlerIds : ChunkReturn(h)

ChunkSpec == ChunkInit /\ [][ChunkNext]_vars

\* ---- claims about chunk_text ----

\* the cursors of the iterations a call has begun, and the cursor it holds now
CursorsSoFar(me) ==
    IF me.pc = "loop" THEN Append(me.cursors, me.start) ELSE me.cursors

\* C22: with 0 <= overlap < chunk_size the cursor at the start of every loop
\* iteration is strictly greater than the cursor at the start of the
\* iteration before it, so the loop reaches the end of the text
CursorAdvances ==
    \A h \in HandlerIds :
        LET seen == CursorsSoFar(handlers[h])
        IN  \A i \in 1..(Len(seen) - 1) : seen[i + 1] > seen[i]

\* C23: a text of at least 50 characters that is longer than chunk_size comes
\* back as at least two chunks
LongTextTwoChunks ==
    \A h \in HandlerIds :
        LET me == handlers[h]
        IN  (/\ me.pc = "returned"
             /\ Len(me.given) >= MinTextLen
             /\ Len(me.given) > me.chunk_size) => Len(me.result) >= 2

\* C24: every chunk chunk_text returns has at least one character
ChunksNonEmpty ==
    \A h \in HandlerIds :
        LET me == handlers[h]
        IN  me.pc = "returned" => \A i \in 1..Len(me.result) : Len(me.result[i]) > 0

\* the number of characters of the text two windows both cover
Shared(earlier, later) ==
    LET lo == IF earlier.lo > later.lo THEN earlier.lo ELSE later.lo
        hi == IF earlier.hi < later.hi THEN earlier.hi ELSE later.hi
    IN  IF hi > lo THEN hi - lo ELSE 0

\* C25: two consecutive chunks share at most `overlap` characters of the text
ConsecutiveShareAtMostOverlap ==
    \A h \in HandlerIds :
        LET me == handlers[h]
        IN  \A i \in 1..(Len(me.windows) - 1) :
               Shared(me.windows[i], me.windows[i + 1]) <= me.overlap

\* a call returned several chunks, two consecutive ones sharing exactly
\* `overlap` > 0 characters, and two others, pulled back to a boundary, fewer
OverlappingChunksReturned ==
    \E h \in HandlerIds :
        LET me == handlers[h]
        IN  /\ me.pc = "returned"
            /\ me.overlap > 0
            /\ Len(me.result) >= 3
            /\ \E i \in 1..(Len(me.windows) - 1) :
                  Shared(me.windows[i], me.windows[i + 1]) = me.overlap
            /\ \E i \in 1..(Len(me.windows) - 1) :
                  me.windows[i].hi - me.windows[i].lo < me.chunk_size

\* C30: no chunk is longer than chunk_size
ChunkWithinTarget ==
    \A h \in HandlerIds :
        LET me == handlers[h]
        IN  /\ \A i \in 1..Len(me.chunks) : Len(me.chunks[i]) <= me.chunk_size
            /\ \A i \in 1..Len(me.result) : Len(me.result[i]) <= me.chunk_size

\* ---- KnowledgeBase.add_text ----

\* chunk_text run from its entry to its return; a call that has not returned
\* after MaxIterations iterations is left in its loop
RECURSIVE ChunkRun(_)
ChunkRun(me) ==
    IF me.pc # "loop" THEN me
    ELSE IF me.start < Len(me.text)
         THEN IF Len(me.cursors) < MaxIterations
              THEN ChunkRun(ChunkIteration(me)) ELSE me
         ELSE [me EXCEPT !.pc = "returned", !.result = me.chunks]

ChunkText(text, chunk_size, overlap) ==
    ChunkRun(ChunkEntered(ChunkCall(text, chunk_size, overlap)))

\* str(i) of the f-string
RECURSIVE Decimal(_)
Decimal(i) ==
    LET digit(d) == <<"0", "1", "2", "3", "4", "5", "6", "7", "8", "9">>[d + 1]
    IN  IF i < 10 THEN <<digit(i)>> ELSE Append(Decimal(i \div 10), digit(i % 10))

\* f"{source_url}_{i}"
ChunkId(source_url, i) == source_url \o <<"_">> \o Decimal(i)

\* the source_url arguments; the second one ends like a chunk id
SourceUrls == { <<"u">>, <<"u", "_", "1">> }

\* the texts handed to add_text
IngestTexts ==
    { <<>>,
      Repeat(<<" ">>, 50),
      Repeat(<<"a">>, 60),
      Repeat(<<"a">>, 40) \o Repeat(<<" ">>, 20),
      Repeat(<<"a", "b", "c", " ">>, 15) }

\* settings.chunk_size and settings.chunk_overlap: the defaults and a smaller
\* pair set through the environment
IngestSettings ==
    { [chunk_size |-> 1000, chunk_overlap |-> 200],
      [chunk_size |-> 45, chunk_overlap |-> 5] }

\* collection.upsert that adds the entries and keeps the ones stored before
UpsertKeepingOld(coll, ids, documents, metadatas) ==
    coll \cup { [id |-> ids[i], document |-> documents[i], metadata |-> metadatas[i]] :
                  i \in 1..Len(ids) }

\* collection.upsert(ids, documents, metadatas): the entry of each id is
\* stored, in place of the entry the collection held under that id
Upsert(coll, ids, documents, metadatas) ==
    { e \in coll : \A i \in 1..Len(ids) : e.id # ids[i] }
       \cup { [id |-> ids[i], document |-> documents[i], metadata |-> metadatas[i]] :
                i \in 1..Len(ids) }

IdleIngester(settings) ==
    [call |-> "none", store |-> "none", queried |-> FALSE, matches |-> None,
     dropped |-> {}, result |-> None,
     settings |-> settings,
     source_url |-> <<>>,   \* the arguments of the last add_text
     chunks |-> <<>>,       \* what chunk_text returned to it
     before |-> {}]         \* the collection when it was called

IngestInit ==
    /\ response_cache = None
    /\ knowledge_base = KnowledgeBaseObject
    /\ ai_brain = None
    /\ init_lock = "free"
    /\ collection = {}
    /\ relevance_threshold = 7
    /\ auth = None
    /\ now = 0
    /\ started = 0
    /\ \E settings \in IngestSettings :
          handlers = [h \in HandlerIds |-> IdleIngester(settings)]

\* KnowledgeBase.add_text(text, source_url); the upsert can raise, and
\* nothing in add_text catches it
KbAddText(h) ==
    /\ started < MaxCalls
    /\ started' = started + 1
    /\ \E text \in IngestTexts, source_url \in SourceUrls, upserted \in BOOLEAN :
          LET me == handlers[h]
              run == ChunkText(text, me.settings.chunk_size, me.settings.chunk_overlap)
              chunks == run.result
              ids == [i \in 1..Len(chunks) |-> ChunkId(source_url, i - 1)]
              metadatas == [i \in 1..Len(chunks) |->
                               [source |-> source_url, chunk_index |-> i - 1]]
              called == [me EXCEPT !.call = "add_text", !.queried = FALSE,
                                   !.dropped = {}, !.source_url = source_url,
                                   !.chunks = chunks, !.before = collection]
          IN  /\ run.pc = "returned"
              /\ IF chunks = <<>>
                 THEN /\ collection' = collection
                      /\ handlers' = [handlers EXCEPT ![h] =
                            [called EXCEPT !.store = "untouched",
                                           !.result = [value |-> 0]]]
                 ELSE IF upserted
                 THEN /\ collection' = Upsert(collection, ids, chunks, metadatas)
                      /\ handlers' = [handlers EXCEPT ![h] =
                            [called EXCEPT !.store = "upserted",
                                           !.result = [value |-> Len(chunks)]]]
                 ELSE /\ collection' = collection
                      /\ handlers' = [handlers EXCEPT ![h] =
                            [called EXCEPT !.store = "upsert_raises",
                                           !.result = Raised("add_text")]]
    /\ UNCHANGED <<response_cache, knowledge_base, ai_brain, init_lock,
                   relevance_threshold, auth, now>>

IngestNext ==
    \/ \E h \in HandlerIds : KbAddText(h)
    \/ \E h \in HandlerIds : KbClear(h)
    \/ \E h \in HandlerIds : KbIsEmpty(h)

IngestSpec == IngestInit /\ [][IngestNext]_vars

\* the entries the collection holds under an id
EntriesOf(id) == { e \in collection : e.id = id }

\* C26: when add_text(text, source_url) has returned n > 0, n is the number of
\* chunks chunk_text produced, and for each i in 0..n-1 the collection holds
\* one entry with the id "{source_url}_{i}": its text is the i-th chunk and
\* its metadata names source_url and i
AddStoresEveryChunk ==
    \A h \in HandlerIds :
        LET me == handlers[h]
        IN  (/\ me.call = "add_text"
             /\ "value" \in DOMAIN me.result
             /\ me.result.value > 0)
            => /\ me.result.value = Len(me.chunks)
               /\ \A i \in 0..(me.result.value - 1) :
                     EntriesOf(ChunkId(me.source_url, i)) =
                        { [id |-> ChunkId(me.source_url, i),
                           document |-> me.chunks[i + 1],
                           metadata |-> [source |-> me.source_url, chunk_index |-> i]] }

\* add_text returned 2 after storing two chunks, the first in place of an
\* entry that held another text under the same id
AddReplacedEntry ==
    \E h \in HandlerIds :
        LET me == handlers[h]
        IN  /\ me.call = "add_text"
            /\ me.result = [value |-> 2]
            /\ \E e \in me.before :
                  /\ e.id = ChunkId(me.source_url, 0)
                  /\ e.document # me.chunks[1]

\* C27: when chunk_text produces no chunks, or the upsert fails, add_text
\* returns 0 and does not raise, and the collection is as it was
IngestFailureReturnsZero ==
    \A h \in HandlerIds :
        LET me == handlers[h]
        IN  (me.call = "add_text" /\ me.store \in {"untouched", "upsert_raises"})
            => (me.result = [value |-> 0] /\ collection = me.before)

\* ---- AIBrain.__init__ and the provider it selects ----

\* settings.llm_provider as configured: spelled in either case, with a space
\* in front, empty, or the name of no provider
ProviderNames ==
    { <<"g", "r", "o", "q">>,
      <<"g", "r", "O", "q">>,
      <<"g", "e", "m", "i", "n", "i">>,
      <<"g", "e", "M", "i", "n", "i">>,
      <<" ", "g", "r", "o", "q">>,
      <<"g", "r", "o", "k">>,
      <<"O", "x">>,
      <<>> }

\* the settings and the packages a provider's constructor depends on
ProviderSettings ==
    [llm_provider : ProviderNames,
     groq_api_key : {"", "gsk"},
     google_api_key : {"", "AIza"},
     groq_installed : BOOLEAN,
     genai_installed : BOOLEAN]

\* GroqProvider(): the import, the test of the key, the client
GroqProvider(settings) ==
    IF ~settings.groq_installed THEN [raised |-> "ImportError"]
    ELSE IF settings.groq_api_key = "" THEN [raised |-> "ValueError"]
    ELSE [provider_name |-> "groq"]

\* GeminiProvider()
GeminiProvider(settings) ==
    IF ~settings.genai_installed THEN [raised |-> "ImportError"]
    ELSE IF settings.google_api_key = "" THEN [raised |-> "ValueError"]
    ELSE [provider_name |-> "gemini"]

\* a factory that refuses a name it does not know
CreateProviderOfKnownName(settings) ==
    LET provider_name == Lower(settings.llm_provider)
    IN  IF provider_name = <<"g", "r", "o", "q">> THEN GroqProvider(settings)
        ELSE IF provider_name = <<"g", "e", "m", "i", "n", "i">> THEN GeminiProvider(settings)
        ELSE [raised |-> "ValueError"]

\* AIBrain._create_provider
CreateProvider(settings) ==
    LET provider_name == Lower(settings.llm_provider)
    IN  IF provider_name = <<"g", "r", "o", "q">> THEN GroqProvider(settings)
        ELSE IF provider_name = <<"g", "e", "m", "i", "n", "i">> THEN GeminiProvider(settings)
        ELSE GroqProvider(settings)

\* the warning of _create_provider's last branch is logged
WarnsUnknownProvider(settings) ==
    Lower(settings.llm_provider) \notin { <<"g", "r", "o", "q">>,
                                          <<"g", "e", "m", "i", "n", "i">> }

\* AIBrain(): the object, or what the provider's constructor raised
NewAIBrain(settings) ==
    LET provider == CreateProvider(settings)
    IN  IF "raised" \in DOMAIN provider THEN provider
        ELSE [object |-> "AIBrain", provider |-> provider]

ProviderInit ==
    /\ response_cache = None
    /\ knowledge_base = None
    /\ ai_brain = None
    /\ init_lock = "free"
    /\ collection = {}
    /\ relevance_threshold = 7
    /\ auth = None
    /\ now = 0
    /\ started = 0
    /\ \E settings \in ProviderSettings :
          handlers = [h \in HandlerIds |->
                         [pc |-> "configured", settings |-> settings,
                          warned |-> FALSE, brain |-> None]]

\* AIBrain() is called
AIBrainConstruct(h) ==
    /\ handlers[h].pc = "configured"
    /\ handlers' = [handlers EXCEPT ![h] =
          [@ EXCEPT !.pc = "constructed",
                    !.warned = WarnsUnknownProvider(handlers[h].settings),
                    !.brain = NewAIBrain(handlers[h].settings)]]
    /\ UNCHANGED <<response_cache, knowledge_base, ai_brain, init_lock, collection,
                   relevance_threshold, auth, now, started>>

ProviderNext == \E h \in HandlerIds : AIBrainConstruct(h)

ProviderSpec == ProviderInit /\ [][ProviderNext]_vars

\* the configured name, in lower case, is neither "groq" nor "gemini"
UnknownProviderName(settings) == WarnsUnknownProvider(settings)

\* C28 as stated: constructing AIBrain with a provider name that is neither
\* "groq" nor "gemini" in any case succeeds, and the provider's name is "groq"
UnknownNameConstructs ==
    \A h \in HandlerIds :
        LET me == handlers[h]
        IN  (me.pc = "constructed" /\ UnknownProviderName(me.settings))
            => me.brain = [object |-> "AIBrain", provider |-> [provider_name |-> "groq"]]

\* C28, amended: with a provider name that is neither "groq" nor "gemini" in
\* any case, AIBrain is constructed exactly as with the name "groq": with the
\* groq package installed and GROQ_API_KEY set the construction succeeds and
\* the provider's name is "groq", otherwise it raises what GroqProvider raises
UnknownNameFallsBackToGroq ==
    \A h \in HandlerIds :
        LET me == handlers[h]
            named_groq == [me.settings EXCEPT !.llm_provider = <<"g", "r", "o", "q">>]
        IN  (me.pc = "constructed" /\ UnknownProviderName(me.settings))
            => /\ me.brain = NewAIBrain(named_groq)
               /\ (me.settings.groq_installed /\ me.settings.groq_api_key # "")
                     => me.brain = [object |-> "AIBrain",
                                    provider |-> [provider_name |-> "groq"]]
               /\ ~(me.settings.groq_installed /\ me.settings.groq_api_key # "")
                     => "raised" \in DOMAIN me.brain

\* AIBrain was constructed from a name of no provider, with no Gemini key
\* configured, and its provider is the Groq one
FellBackToGroq ==
    \E h \in HandlerIds :
        LET me == handlers[h]
        IN  /\ me.pc = "constructed"
            /\ me.settings.llm_provider = <<"g", "r", "o", "k">>
            /\ me.settings.google_api_key = ""
            /\ me.warned
            /\ me.brain = [object |-> "AIBrain", provider |-> [provider_name |-> "groq"]]

(***************************************************************************)
(* Incremental relay.                                                      *)
(***************************************************************************)
\* the chunk events a stream has handed to its consumer
Relayed(me) == SelectSeq(me.events, LAMBDA e : "chunk" \in DOMAIN e)

\* C29: /chat/stream hands the chunk event of the i-th delta to the consumer
\* before it asks the provider for the (i+1)-th: the chunk events are the
\* deltas received, in order, but for at most one delta, the last, which the
\* pipeline holds, and the next delta is asked for only when none is held.
RelaysIncrementally ==
    /\ [](\A h \in HandlerIds :
             LET me == handlers[h]
                 held == IF me.pending = "none" THEN 0 ELSE 1
             IN  me.gen # "none" =>
                    /\ Len(Relayed(me)) = Len(me.produced) - held
                    /\ Relayed(me) = ChunkEvents(SubSeq(me.produced, 1, Len(Relayed(me))))
                    /\ held = 1 => me.pending = Last(me.produced))
    /\ [][\A h \in HandlerIds :
             Len(handlers'[h].produced) > Len(handlers[h].produced) =>
                /\ handlers[h].pending = "none"
                /\ Len(handlers'[h].produced) = Len(handlers[h].produced) + 1
                /\ Len(Relayed(handlers[h])) = Len(handlers[h].produced)]_vars

\* the consumer holds the first chunk event, and the pipeline the second
\* delta, which it has not handed over yet
SecondDeltaHeld ==
    \E h \in HandlerIds :
        LET me == handlers[h]
        IN  /\ me.pc = "s_yield"
            /\ Len(me.produced) = 2
            /\ me.pending = me.produced[2]
            /\ Relayed(me) = <<ChunkEvent(me.produced[1])>>

\* ---- where chunk_text cuts ----

\* the iterations of a call that were not the last window: `end < len(text)`
\* held for the raw end, and the cursor was a position of the text
NonFinal(me) ==
    { i \in 1..Len(me.cursors) :
         me.cursors[i] >= 0 /\ me.cursors[i] + me.chunk_size < Len(me.text) }

\* the last min(chunk_size, 200) characters of the window at `start`:
\* the characters lo+1 .. hi of the text
Region(start, chunk_size) ==
    [lo |-> IF chunk_size > BreakWindow THEN start + chunk_size - BreakWindow ELSE start,
     hi |-> start + chunk_size]

\* the positions in a region where a paragraph break, a sentence end with
\* its whitespace, a whitespace character begins
ParagraphBreaks(text, r) ==
    { j \in (r.lo + 1)..(r.hi - 1) : text[j] = "\n" /\ text[j + 1] = "\n" }

SentenceEnds(text, r) ==
    { j \in (r.lo + 1)..(r.hi - 1) : IsSentenceEnd(text[j]) /\ IsSpace(text[j + 1]) }

Whitespace(text, r) == { j \in (r.lo + 1)..r.hi : IsSpace(text[j]) }

\* C31: when the region of a non-final window has no paragraph break and
\* has a sentence end, the window ends with the punctuation character of the
\* last sentence end: the whitespace after it is outside the window
SentenceCutEndsWithPunctuation ==
    \A h \in HandlerIds :
        LET me == handlers[h]
        IN  \A i \in NonFinal(me) :
               LET r == Region(me.cursors[i], me.chunk_size)
                   end == ChunkEnd(me.text, me.cursors[i], me.chunk_size)
               IN  (ParagraphBreaks(me.text, r) = {} /\ SentenceEnds(me.text, r) # {})
                   => end = Max(SentenceEnds(me.text, r))

\* C32: a non-final window is cut by what its last min(chunk_size, 200)
\* characters hold: after the last paragraph break when there is one, also
\* when a sentence end or whitespace comes later; by the last sentence end
\* (one character past its whitespace) only when there is no paragraph
\* break; after the last whitespace only when there is neither; and at
\* start + chunk_size only when there is none of the three
BoundaryPriority ==
    \A h \in HandlerIds :
        LET me == handlers[h]
        IN  \A i \in NonFinal(me) :
               LET r == Region(me.cursors[i], me.chunk_size)
                   end == ChunkEnd(me.text, me.cursors[i], me.chunk_size)
                   paragraphs == ParagraphBreaks(me.text, r)
                   sentences == SentenceEnds(me.text, r)
                   spaces == Whitespace(me.text, r)
               IN  /\ r.hi - r.lo = (IF me.chunk_size < BreakWindow THEN me.chunk_size ELSE BreakWindow)
                   /\ paragraphs # {} =>
                         /\ end - 1 \in paragraphs
                         /\ \A j \in paragraphs : j <= end
                   /\ (paragraphs = {} /\ sentences # {}) => end = Max(sentences) + 2
                   /\ (paragraphs = {} /\ sentences = {} /\ spaces # {}) => end = Max(spaces)
                   /\ (paragraphs = {} /\ sentences = {} /\ spaces = {}) => end = r.hi

\* a window was cut after a paragraph break although a sentence end and
\* whitespace follow the break inside the region
CutAtParagraphBeforeSentence ==
    \E h \in HandlerIds :
        LET me == handlers[h]
        IN  \E i \in NonFinal(me) :
               LET r == Region(me.cursors[i], me.chunk_size)
                   end == ChunkEnd(me.text, me.cursors[i], me.chunk_size)
               IN  /\ i < Len(me.cursors)
                   /\ end - 1 \in ParagraphBreaks(me.text, r)
                   /\ \E j \in SentenceEnds(me.text, r) : j > end
                   /\ me.cursors[i + 1] = end - me.overlap

\* C35: a call that returns from its loop has lost no text: every character
\* of the stripped text that is not whitespace lies in the window of a
\* returned chunk, and the chunks are in the order of their windows
NoTextLost ==
    \A h \in HandlerIds :
        LET me == handlers[h]
        IN  (me.pc = "returned" /\ me.cursors # <<>>)
            => /\ \A p \in 1..Len(me.text) :
                     ~IsSpace(me.text[p]) =>
                        \E i \in 1..Len(me.windows) :
                           me.windows[i].lo < p /\ p <= me.windows[i].hi
               /\ \A i \in 1..(Len(me.windows) - 1) :
                     me.windows[i].lo < me.windows[i + 1].lo

\* ---- what search makes of the matches ----

\* C33: when a search on a non-empty store gets at least one match, its
\* best_distance is the least of the matches' distances, its context is the
\* matches' texts in the order the store returned them, with the separator
\* between them, and its sources holds each distinct non-empty source of the
\* matches once
SearchSummarisesMatches ==
    \A h \in HandlerIds :
        LET me == handlers[h]
            ids == me.matches.ids
            n == Len(ids)
            named == { Chunk(ids[i]).source : i \in 1..n } \ {""}
        IN  (me.call = "search" /\ me.store = "matches")
            => /\ n > 0
               /\ \A i \in 1..n : me.result.best_distance <= me.matches.distances[i]
               /\ \E i \in 1..n : me.result.best_distance = me.matches.distances[i]
               /\ me.result.context = Join([i \in 1..n |-> Chunk(ids[i]).document], Separator)
               /\ Range(me.result.sources) = named
               /\ Len(me.result.sources) = Cardinality(named)

\* a search returned three matches, the nearest of them last, one without a
\* source, and named the two sources
ThreeMatchesTwoSources ==
    \E h \in HandlerIds :
        LET me == handlers[h]
        IN  /\ me.call = "search" /\ me.store = "matches"
            /\ Len(me.matches.ids) = 3
            /\ me.matches.distances = <<9, 7, 5>>
            /\ \E i \in 1..3 : Chunk(me.matches.ids[i]).source = ""
            /\ me.result.best_distance = 5
            /\ Len(me.result.sources) = 2

\* C34: when add_text(text, source_url) has returned n > 0, the entries of
\* the collection whose metadata names source_url are the n chunks of this
\* call, with the indexes 0..n-1, and no others
SourceHoldsOnlyLastIngestion ==
    \A h \in HandlerIds :
        LET me == handlers[h]
        IN  (/\ me.call = "add_text"
             /\ "value" \in DOMAIN me.result
             /\ me.result.value > 0)
            => { e \in collection : e.metadata.source = me.source_url }
                  = { [id |-> ChunkId(me.source_url, i),
                       document |-> me.chunks[i + 1],
                       metadata |-> [source |-> me.source_url, chunk_index |-> i]] :
                      i \in 0..(me.result.value - 1) }

(***************************************************************************)
(* Off-topic questions and the provider.                                   *)
(***************************************************************************)
\* C36: a question whose retrieval result is off-topic (here: any question,
\* the store being empty) gets the refusal from /chat and /chat/stream also
\* when AIBrain cannot be constructed: with the KnowledgeBase constructed
\* and its search not raising, a finished request has delivered the refusal
\* or, on /chat/stream, the response that streams it
OffTopicNeedsNoProvider ==
    \A h \in HandlerIds :
        LET me == handlers[h]
        IN  (/\ me.pc = "done"
             /\ collection = {}
             /\ knowledge_base # None
             /\ me.fail # "search")
            => IF me.mode = "chat" THEN me.result = OffTopicAnswer
               ELSE me.result = StreamingResponse

(***************************************************************************)
(* A constructor that raises inside an accessor.                           *)
(***************************************************************************)
\* a thread that has entered an accessor runs on: the scheduler gives every
\* thread its turn, and a thread waiting for the lock gets it once the lock
\* stays free
LazyFairness ==
    \A t \in ThreadIds :
       /\ WF_vars(LazyCheck(t))
       /\ WF_vars(LazyAcquire(t))
       /\ WF_vars(LazyRecheck(t))
       /\ WF_vars(LazyConstruct(t))
       /\ WF_vars(LazyRelease(t))
       /\ WF_vars(LazyReturn(t))
       /\ WF_vars(LazyDone(t))

LazyFairSpec == LazyInit /\ [][LazyNext]_vars /\ LazyFairness

\* C37: when the constructor called in get_knowledge_base, get_ai_brain or
\* get_response_cache raises, the lock is released and the singleton stays
\* unset: the lock is held only by a thread inside a with block, a thread
\* waiting for the lock gets it, and a call that finds the singleton unset
\* under the lock calls the constructor again
RaisingConstructorFreesLock ==
    /\ [](\A t \in ThreadIds :
             init_lock = t => handlers[t].pc \in {"recheck", "construct", "release"})
    /\ [][\A t \in ThreadIds :
             (handlers[t].pc = "release" /\ handlers[t].raising
                /\ handlers'[t] # handlers[t]) =>
                /\ init_lock = t /\ init_lock' = "free"
                /\ Ref(handlers[t].service) = None
                /\ Refs' = Refs
                /\ handlers'[t].result = Raised("init")]_vars
    /\ [][\A t \in ThreadIds :
             (handlers[t].pc = "recheck" /\ Ref(handlers[t].service) = None
                /\ handlers'[t] # handlers[t]) =>
                handlers'[t].pc = "construct"]_vars
    /\ \A t \in ThreadIds :
          (handlers[t].pc = "acquire") ~> (handlers[t].pc = "recheck")

\* the constructor raised in one thread's call, and another thread, which
\* waited for the lock meanwhile, then built the singleton
BuiltAfterFailedConstruction ==
    \E t, u \in ThreadIds :
       /\ t # u
       /\ handlers[t].pc = "done" /\ handlers[t].result = Raised("init")
       /\ handlers[u].service = handlers[t].service
       /\ handlers[u].saw_none
       /\ handlers[u].pc = "done"
       /\ handlers[u].result = Instance(handlers[u].service, u)

(***************************************************************************)
(* auth_service: one-time codes.  `auth` holds the OTP file of             *)
(* models/user.py, the users file, and the module's _failed_attempts.      *)
(***************************************************************************)
MaxFailedAttempts == 5   \* `if attempts >= 5:`
FailedMaxSize == 1       \* TTLCache(maxsize=10000, ...), scaled down
FailedTtl == 2           \* TTLCache(..., ttl=3600), in ticks
OtpExpiry == 1           \* settings.otp_expiry_minutes, in ticks

\* the email arguments: one address in two spellings, and another address
Emails == { <<"o">>, <<"O">>, <<"x">> }
EmailKeys == { Lower(email) : email \in Emails }

\* the spellings a code is requested under; the other address only
\* presents codes
Requesters == { <<"o">>, <<"O">> }

\* the codes generate_otp can draw, and a caller can present
OtpCodes == {"1", "2"}

\* the files and the module state before any call
NewAuth ==
    [otps |-> [k \in EmailKeys |-> None],        \* otps.json
     users |-> {},                               \* users.json, by its keys
     failed_attempts |-> <<>>,                   \* _failed_attempts
     issued |-> [k \in EmailKeys |-> None],      \* the last code request_otp made
                                                 \* for an email, and whether a
                                                 \* verify_otp has accepted it
     locked_until |-> [k \in EmailKeys |-> 0]]   \* when the record of an email's
                                                 \* fifth failure expires

\* save_otp(email, code, expires_at)
SaveOtp(otps, email, code, expires_at) ==
    [otps EXCEPT ![Lower(email)] =
        [email |-> Lower(email), code |-> code, expires_at |-> expires_at,
         used |-> FALSE]]

\* get_otp(email)
GetOtp(otps, email) == otps[Lower(email)]

\* delete_otp(email)
DeleteOtp(otps, email) == [otps EXCEPT ![Lower(email)] = None]

\* request_otp(email) with the code generate_otp drew
RequestedOtp(a, email, otp_code, time) ==
    [a EXCEPT !.otps = SaveOtp(a.otps, email, otp_code, time + OtpExpiry),
              !.issued[Lower(email)] = [code |-> otp_code, accepted |-> FALSE]]

\* _failed_attempts.get(email_lower, 0)
FailedAttempts(a, email_lower, time) ==
    IF TtlContains(a.failed_attempts, email_lower, time)
    THEN a.failed_attempts[TtlIndex(a.failed_attempts, email_lower)].value
    ELSE 0

\* `_failed_attempts[email_lower] = attempts + 1` after the get
FailureRecorded(a, email_lower, time) ==
    [a EXCEPT !.failed_attempts =
        TtlSetItem(TtlGetCache(a.failed_attempts, email_lower, time), email_lower,
                   FailedAttempts(a, email_lower, time) + 1,
                   time, FailedMaxSize, FailedTtl),
              !.locked_until[email_lower] =
                 IF FailedAttempts(a, email_lower, time) + 1 = MaxFailedAttempts
                 THEN time + FailedTtl ELSE @]

\* a verification that leaves the accepted code in the file
VerifiedOtpCodeKept(a, email, code, time) ==
    LET email_lower == Lower(email)
        attempts == FailedAttempts(a, email_lower, time)
        touched == [a EXCEPT !.failed_attempts = TtlGetCache(@, email_lower, time)]
        otp_entry == GetOtp(a.otps, email)
    IN  IF attempts >= MaxFailedAttempts
        THEN [auth |-> touched, user |-> None, outcome |-> "locked_out"]
        ELSE IF otp_entry = None
        THEN [auth |-> FailureRecorded(a, email_lower, time), user |-> None,
              outcome |-> "no_otp"]
        ELSE IF otp_entry.used
        THEN [auth |-> FailureRecorded(a, email_lower, time), user |-> None,
              outcome |-> "used"]
        ELSE IF time > otp_entry.expires_at
        THEN [auth |-> FailureRecorded([a EXCEPT !.otps = DeleteOtp(@, email)],
                                       email_lower, time),
              user |-> None, outcome |-> "expired"]
        ELSE IF otp_entry.code # code
        THEN [auth |-> FailureRecorded(a, email_lower, time), user |-> None,
              outcome |-> "wrong_code"]
        ELSE [auth |-> [touched EXCEPT
                          !.failed_attempts = TtlRemove(@, email_lower),
                          !.users = @ \cup {email_lower},
                          !.issued[email_lower] = [@ EXCEPT !.accepted = TRUE],
                          !.locked_until[email_lower] = 0],
              user |-> [email |-> email_lower], outcome |-> "verified"]

\* verify_otp(email, code): the files and the module state after the call,
\* and the user it returns (None for no user)
VerifiedOtp(a, email, code, time) ==
    LET email_lower == Lower(email)
        attempts == FailedAttempts(a, email_lower, time)
        touched == [a EXCEPT !.failed_attempts = TtlGetCache(@, email_lower, time)]
        otp_entry == GetOtp(a.otps, email)
    IN  IF attempts >= MaxFailedAttempts
        THEN [auth |-> touched, user |-> None, outcome |-> "locked_out"]
        ELSE IF otp_entry = None
        THEN [auth |-> FailureRecorded(a, email_lower, time), user |-> None,
              outcome |-> "no_otp"]
        ELSE IF otp_entry.used
        THEN [auth |-> FailureRecorded(a, email_lower, time), user |-> None,
              outcome |-> "used"]
        ELSE IF time > otp_entry.expires_at
        THEN [auth |-> FailureRecorded([a EXCEPT !.otps = DeleteOtp(@, email)],
                                       email_lower, time),
              user |-> None, outcome |-> "expired"]
        ELSE IF otp_entry.code # code
        THEN [auth |-> FailureRecorded(a, email_lower, time), user |-> None,
              outcome |-> "wrong_code"]
        ELSE [auth |-> [touched EXCEPT
                          !.otps = DeleteOtp(@, email),
                          !.failed_attempts = TtlRemove(@, email_lower),
                          !.users = @ \cup {email_lower},
                          !.issued[email_lower] = [@ EXCEPT !.accepted = TRUE],
                          !.locked_until[email_lower] = 0],
              user |-> [email |-> email_lower], outcome |-> "verified"]

IdleAuthCaller ==
    [call |-> "none", email |-> <<>>, code |-> "none",
     locked |-> FALSE,    \* a fifth failure of the email was recorded, no
                          \* success since, and its record has not expired
     result |-> None]

AuthInit ==
    /\ response_cache = None
    /\ knowledge_base = None
    /\ ai_brain = None
    /\ init_lock = "free"
    /\ collection = {}
    /\ relevance_threshold = 7
    /\ auth = NewAuth
    /\ now = 0
    /\ started = 0
    /\ handlers = [h \in HandlerIds |-> IdleAuthCaller]

AuthFrame == <<response_cache, knowledge_base, ai_brain, init_lock, collection,
               relevance_threshold, started>>

\* request_otp(email): the code is saved whether or not the mail goes out
RequestOtp(h) ==
    /\ \E email \in Requesters, otp_code \in OtpCodes, success \in BOOLEAN :
          /\ auth' = RequestedOtp(auth, email, otp_code, now)
          /\ handlers' = [handlers EXCEPT ![h] =
                [call |-> "request_otp", email |-> email, code |-> otp_code,
                 locked |-> FALSE,
                 result |-> [value |-> success]]]
    /\ UNCHANGED <<AuthFrame, now>>

\* verify_otp(email, code)
VerifyOtp(h) ==
    /\ \E email \in Emails, code \in OtpCodes :
          LET after == VerifiedOtp(auth, email, code, now)
          IN  /\ auth' = after.auth
              /\ handlers' = [handlers EXCEPT ![h] =
                    [call |-> "verify_otp", email |-> email, code |-> code,
                     locked |-> now < auth.locked_until[Lower(email)],
                     result |-> after.user]]
    /\ UNCHANGED <<AuthFrame, now>>

\* time passes between two calls
AuthTick ==
    /\ now < MaxTime
    /\ now' = now + 1
    /\ UNCHANGED <<AuthFrame, auth, handlers>>

AuthNext ==
    \/ \E h \in HandlerIds : RequestOtp(h)
    \/ \E h \in HandlerIds : VerifyOtp(h)
    \/ AuthTick

AuthSpec == AuthInit /\ [][AuthNext]_vars

\* C38: once five failed verifications of an email are on record with no
\* success since, verify_otp returns no user for that email, whatever code
\* is presented and whatever request_otp did meanwhile, until that record
\* expires; and no record counts more than five failures
LockedOutGetsNoUser ==
    /\ \A h \in HandlerIds :
          (handlers[h].call = "verify_otp" /\ handlers[h].locked)
             => handlers[h].result = None
    /\ \A i \in 1..Len(auth.failed_attempts) :
          auth.failed_attempts[i].value <= MaxFailedAttempts

\* C39: a code request_otp issued is accepted by at most one verify_otp:
\* the call that returns a user presented the code issued last for the
\* email, which no call had been given a user for, and leaves no code in
\* the file and no failure on record for the email
CodeAcceptedOnce ==
    /\ [](\A h \in HandlerIds :
             LET me == handlers[h]
                 k == Lower(me.email)
             IN  (me.call = "verify_otp" /\ me.result # None)
                 => /\ me.result = [email |-> k]
                    /\ auth.otps[k] = None
                    /\ FailedAttempts(auth, k, now) = 0
                    /\ auth.issued[k].accepted)
    /\ [][\A h \in HandlerIds :
             LET me == handlers'[h]
                 k == Lower(me.email)
             IN  (me.call = "verify_otp" /\ me.result # None /\ auth' # auth)
                 => /\ auth.issued[k] # None
                    /\ ~auth.issued[k].accepted
                    /\ me.code = auth.issued[k].code
                    /\ auth.otps[k] # None
                    /\ auth.otps[k].code = me.code]_vars

\* the code that got a user was presented once more, in the other spelling
\* of the email, and got none
AcceptedCodePresentedAgain ==
    \E h \in HandlerIds :
        LET me == handlers[h]
            k == Lower(me.email)
        IN  /\ me.call = "verify_otp"
            /\ me.result = None
            /\ me.email # k
            /\ auth.issued[k] # None
            /\ auth.issued[k].accepted
            /\ me.code = auth.issued[k].code
            /\ k \in auth.users

====
